---- MODULE Spec2Model ----
(***************************************************************************)
(* Radio VoIP DayZ: the local HTTP control plane of the Electron main      *)
(* process (src/main.cjs) with its helpers from lib/httpServer.cjs         *)
(* (src/unnamed/part_001).  The model covers the session state             *)
(* (serverURL, isPTTPressed, lastHeartbeat, mainWindow), the request       *)
(* handler, the heartbeat timer and the window / application lifecycle.    *)
(* Times are in milliseconds, as in the code.                              *)
(***************************************************************************)
EXTENDS Integers, Sequences, FiniteSets, TLC

VARIABLES
    serverURL,        \* main.cjs:23   JS value: null or the url of /connect
    isPTTPressed,     \* main.cjs:31   boolean
    lastHeartbeat,    \* main.cjs:34   JS value: null or a Date.now() number
    mainWindow,       \* main.cjs:30   TRUE = a BrowserWindow, FALSE = null
    heartbeatCheckInterval, \* main.cjs:35  TRUE while the interval is set
    now,              \* Date.now()
    nextCheck,        \* time at which the setInterval callback fires next
    platform,         \* process.platform
    phase,            \* application lifecycle position
    pending,          \* number of handlers suspended in `await parseJSONBody`
    lastOp,           \* name of the handler that ran in the last step
    reason,           \* argument of the disconnect() call of the last step
    resp,             \* response written by the last step
    sent,             \* calls made on mainWindow by the last step, in order
    lastRead,         \* how the body read of the last step ended, if it read one
    pressedSince,     \* a /ptt/press was handled since the last release event
    pressEvents,      \* ptt:press events sent since the last release event
    pressSeen,        \* one of those presses was handled with a window attached
    connectedURL,     \* url of the latest 200 /connect, null after a disconnect()
    lastReq,          \* the request of the last step, when it named none of the routes
    staleTimeout,     \* a heartbeat_timeout disconnect ran while the /connect that
                      \* is suspended, or that resumed in the last step, awaited its body
    timeouts,         \* calls of disconnect("heartbeat_timeout") made so far
    extracted,        \* the state object of createRequestHandler, run side by side
                      \* with the handler of main.cjs, its last response and the
                      \* callbacks of its last run
    probe,            \* the run of findFreePort: its argument, the port it tries,
                      \* the ports held by others, its position and its result
    config            \* the run of loadEnvFile and applyEnv: the lines of the file,
                      \* the object built from them and process.env

vars == <<serverURL, isPTTPressed, lastHeartbeat, mainWindow,
          heartbeatCheckInterval, now, nextCheck, platform, phase, pending,
          lastOp, reason, resp, sent, lastRead, pressedSince, pressEvents,
          pressSeen,
          connectedURL, lastReq, staleTimeout, timeouts, extracted, probe,
          config>>

session == <<serverURL, isPTTPressed, lastHeartbeat>>
history == <<pressedSince, pressEvents, pressSeen, connectedURL>>
life    == <<mainWindow, heartbeatCheckInterval, platform, phase>>
clock   == <<now, nextCheck>>

\* ---------------------------------------------------------------- bounds
MaxTime     == 35001   \* the clock stops here
TimeStep    == 5000    \* largest advance of the clock in one step
MaxInflight == 1       \* handlers suspended on their body at a time
MaxPress    == 2       \* the count of press events saturates here
MaxList     == 2       \* longest list handed to isValidFrequenciesArray
MaxPorts    == 4       \* ports whose occupancy is modelled, from FirstPort up
MaxLines    == 2       \* lines of the env file
MaxMonitorTime == 75001  \* the clock of the timer's specification stops here
MaxTimeouts == 2       \* the count of timeouts saturates here

\* ------------------------------------------------------ program constants
HEARTBEAT_TIMEOUT == 30000
CHECK_INTERVAL    == 5000
FirstPort         == 19800   \* default startPort of findFreePort

\* ------------------------------------------------------------- JS values
\* t is the type, s the text of a string, n the integer part of a number and
\* d the digits after its decimal point ("" for an integer)
JUndef    == [t |-> "undefined", s |-> "", n |-> 0, d |-> ""]
JNull     == [t |-> "null",      s |-> "", n |-> 0, d |-> ""]
JStr(x)   == [t |-> "string",    s |-> x,  n |-> 0, d |-> ""]
JNum(k)   == [t |-> "number",    s |-> "", n |-> k, d |-> ""]
JDec(k, digits) == [t |-> "number", s |-> "", n |-> k, d |-> digits]
JBool(b)  == [t |-> "boolean",   s |-> "", n |-> IF b THEN 1 ELSE 0, d |-> ""]
JObj      == [t |-> "object",    s |-> "", n |-> 0, d |-> ""]

\* ToBoolean of the language, as used by `if (x)`
Truthy(v) ==
    CASE v.t = "undefined" -> FALSE
      [] v.t = "null"      -> FALSE
      [] v.t = "boolean"   -> v.n = 1
      [] v.t = "number"    -> v.n # 0 \/ v.d # ""
      [] v.t = "string"    -> v.s # ""
      [] OTHER             -> TRUE

Min(a, b) == IF a <= b THEN a ELSE b


\* ------------------------------------------- what a step shows outside
\* a call made on mainWindow: webContents.send(channel), loadURL(url),
\* loadFile(page)
\* the second argument of webContents.send: nothing, a string, an object
\* {frequency, earSide} or a list of such objects
NoPayload   == [kind |-> "none",   frequency |-> "", earSide |-> JUndef, list |-> <<>>]
PStr(str)   == [kind |-> "string", frequency |-> str, earSide |-> JUndef, list |-> <<>>]
PObj(str, ear) == [kind |-> "object", frequency |-> str, earSide |-> ear, list |-> <<>>]
PList(objs) == [kind |-> "array",  frequency |-> "", earSide |-> JUndef, list |-> objs]

Ev(call, arg) == [call |-> call, arg |-> arg, payload |-> NoPayload]
Send(channel, payload) == [call |-> "send", arg |-> channel, payload |-> payload]
PttPress   == Ev("send", "ptt:press")
PttRelease == Ev("send", "ptt:release")
LoadWaiting == Ev("loadFile", "waiting.html")

Has(evs, e) == \E i \in 1..Len(evs) : evs[i] = e

\* a JSON body handed to sendJSON, all keys present so that bodies compare
\* no header set by setCORSHeaders
NoCORS == [allowOrigin |-> "", allowMethods |-> "", allowHeaders |-> ""]

\* a JSON body handed to sendJSON, all keys present so that bodies compare;
\* json tells that a JSON body was written, cors holds the CORS headers
NoData == [code |-> 0, error |-> "", success |-> FALSE, url |-> JUndef,
           running |-> FALSE, status |-> "", pttPressed |-> FALSE,
           connected |-> FALSE, serverURL |-> JUndef,
           frequency |-> JUndef, earSide |-> JUndef, count |-> JUndef,
           json |-> FALSE, cors |-> NoCORS]
NoResp        == NoData
DSuccess      == [NoData EXCEPT !.success = TRUE]
DConnected(u) == [NoData EXCEPT !.success = TRUE, !.url = u]
DError(msg)   == [NoData EXCEPT !.error = msg]
DFrequency(str) == [NoData EXCEPT !.success = TRUE, !.frequency = JStr(str)]
DEarSide(str, ear) ==
    [NoData EXCEPT !.success = TRUE, !.frequency = JStr(str), !.earSide = ear]
DCount(k)     == [NoData EXCEPT !.success = TRUE, !.count = JNum(k)]
DStatus(st, ptt, conn, srv) ==
    [NoData EXCEPT !.running = TRUE, !.status = st, !.pttPressed = ptt,
                   !.connected = conn, !.serverURL = srv]

sendJSON(statusCode, data) == [data EXCEPT !.code = statusCode, !.json = TRUE]

\* ------------------------------------------------------------- requests
\* req.method, req.url, req.headers.origin ("" when the header is absent) and
\* the body the client sends with it
Req(method, url, origin, body) ==
    [method |-> method, url |-> url, origin |-> origin, body |-> body]
NoReq == Req("", "", "", "")

\* ------------------------------------------------------- request bodies
\* the texts a client may send as the body of POST /connect
ConnectBodies ==
    { "", "{}", "null", "[]", "42", "{\"url\":",
      "{\"url\":\"\"}", "{\"url\":null}", "{\"url\":0}", "{\"url\":false}",
      "{\"url\":\"http://x\"}", "{\"url\":\"http://y\"}" }

\* how the body read ends: the stream's "end" with the text received, or
\* its "error"
NoRead == [ev |-> "", text |-> ""]
BodyReads(texts) ==
    { [ev |-> "end", text |-> t] : t \in texts } \cup { [ev |-> "error", text |-> ""] }

\* the texts a client may send as the body of POST /frequency,
\* /active-channel and /frequency/disconnect
FrequencyBodies ==
    { "", "{}", "null", "[]", "{\"frequency\":",
      "{\"frequency\":45.3}", "{\"frequency\":100.0}", "{\"frequency\":0}",
      "{\"frequency\":\"87.5\"}", "{\"frequency\":null}",
      "{\"frequency\":false}", "{\"frequency\":{}}" }

\* ... of POST /ear-side
EarSideBodies ==
    { "", "{}", "null", "{\"frequency\":",
      "{\"frequency\":45.3,\"earSide\":0}",
      "{\"frequency\":100.0,\"earSide\":2}",
      "{\"frequency\":45.3,\"earSide\":5}",
      "{\"frequency\":45.3,\"earSide\":-1}",
      "{\"frequency\":45.3,\"earSide\":1.5}",
      "{\"frequency\":45.3,\"earSide\":\"1\"}",
      "{\"frequency\":\"45.3\",\"earSide\":5}",
      "{\"frequency\":45.3}",
      "{\"earSide\":1}" }

\* ... of POST /frequencies
FrequenciesBodies ==
    { "", "{}", "null", "{\"frequencies\":[",
      "{\"frequencies\":[]}",
      "{\"frequencies\":[{\"frequency\":45.3,\"earSide\":0},{\"frequency\":100.0,\"earSide\":2}]}",
      "{\"frequencies\":[{\"frequency\":100.0,\"earSide\":2},{\"frequency\":45.3,\"earSide\":0}]}",
      "{\"frequencies\":[{\"frequency\":87,\"earSide\":1}]}",
      "{\"frequencies\":[{\"frequency\":45.3,\"earSide\":0},{\"frequency\":100.0,\"earSide\":5}]}",
      "{\"frequencies\":[{\"frequency\":\"45.3\",\"earSide\":0}]}",
      "{\"frequencies\":[{\"frequency\":45.3}]}",
      "{\"frequencies\":[{\"frequency\":45.3,\"earSide\":0},null]}",
      "{\"frequencies\":[45.3]}",
      "{\"frequencies\":null}",
      "{\"frequencies\":\"45.3\"}",
      "{\"frequencies\":{\"frequency\":45.3,\"earSide\":0}}",
      "[{\"frequency\":45.3,\"earSide\":0}]" }

\* a value of the key "frequencies": its type and, for an array, its elements
NoList == [t |-> "undefined", items |-> <<>>]
JArr(items) == [t |-> "array", items |-> items]
\* an element of that array: its type and its two keys
Elem(kind, freq, ear) == [kind |-> kind, frequency |-> freq, earSide |-> ear]

Parsed(kind, url) ==
    [kind |-> kind, url |-> url, frequency |-> JUndef, earSide |-> JUndef,
     frequencies |-> NoList]
ParsedFreq(freq, ear) ==
    [Parsed("object", JUndef) EXCEPT !.frequency = freq, !.earSide = ear]
ParsedList(list) == [Parsed("object", JUndef) EXCEPT !.frequencies = list]

\* JSON.parse on the texts above; ok = FALSE is the SyntaxError
JSONParse(text) ==
    CASE text = "{}"     -> [ok |-> TRUE, data |-> Parsed("object", JUndef)]
      [] text = "null"   -> [ok |-> TRUE, data |-> Parsed("null", JUndef)]
      [] text = "[]"     -> [ok |-> TRUE, data |-> Parsed("array", JUndef)]
      [] text = "42"     -> [ok |-> TRUE, data |-> Parsed("number", JUndef)]
      [] text = "{\"url\":\"\"}"    -> [ok |-> TRUE, data |-> Parsed("object", JStr(""))]
      [] text = "{\"url\":null}"    -> [ok |-> TRUE, data |-> Parsed("object", JNull)]
      [] text = "{\"url\":0}"       -> [ok |-> TRUE, data |-> Parsed("object", JNum(0))]
      [] text = "{\"url\":false}"   -> [ok |-> TRUE, data |-> Parsed("object", JBool(FALSE))]
      [] text = "{\"url\":\"http://x\"}" -> [ok |-> TRUE, data |-> Parsed("object", JStr("http://x"))]
      [] text = "{\"url\":\"http://y\"}" -> [ok |-> TRUE, data |-> Parsed("object", JStr("http://y"))]
      [] text = "{\"frequency\":45.3}"  -> [ok |-> TRUE, data |-> ParsedFreq(JDec(45, "3"), JUndef)]
      [] text = "{\"frequency\":100.0}" -> [ok |-> TRUE, data |-> ParsedFreq(JNum(100), JUndef)]
      [] text = "{\"frequency\":0}"     -> [ok |-> TRUE, data |-> ParsedFreq(JNum(0), JUndef)]
      [] text = "{\"frequency\":\"87.5\"}" -> [ok |-> TRUE, data |-> ParsedFreq(JStr("87.5"), JUndef)]
      [] text = "{\"frequency\":null}"  -> [ok |-> TRUE, data |-> ParsedFreq(JNull, JUndef)]
      [] text = "{\"frequency\":false}" -> [ok |-> TRUE, data |-> ParsedFreq(JBool(FALSE), JUndef)]
      [] text = "{\"frequency\":{}}"    -> [ok |-> TRUE, data |-> ParsedFreq(JObj, JUndef)]
      [] text = "{\"frequency\":45.3,\"earSide\":0}"
            -> [ok |-> TRUE, data |-> ParsedFreq(JDec(45, "3"), JNum(0))]
      [] text = "{\"frequency\":100.0,\"earSide\":2}"
            -> [ok |-> TRUE, data |-> ParsedFreq(JNum(100), JNum(2))]
      [] text = "{\"frequency\":45.3,\"earSide\":5}"
            -> [ok |-> TRUE, data |-> ParsedFreq(JDec(45, "3"), JNum(5))]
      [] text = "{\"frequency\":45.3,\"earSide\":-1}"
            -> [ok |-> TRUE, data |-> ParsedFreq(JDec(45, "3"), JNum(-1))]
      [] text = "{\"frequency\":45.3,\"earSide\":1.5}"
            -> [ok |-> TRUE, data |-> ParsedFreq(JDec(45, "3"), JDec(1, "5"))]
      [] text = "{\"frequency\":45.3,\"earSide\":\"1\"}"
            -> [ok |-> TRUE, data |-> ParsedFreq(JDec(45, "3"), JStr("1"))]
      [] text = "{\"frequency\":\"45.3\",\"earSide\":5}"
            -> [ok |-> TRUE, data |-> ParsedFreq(JStr("45.3"), JNum(5))]
      [] text = "{\"earSide\":1}"
            -> [ok |-> TRUE, data |-> ParsedFreq(JUndef, JNum(1))]
      [] text = "{\"frequencies\":[]}"
            -> [ok |-> TRUE, data |-> ParsedList(JArr(<<>>))]
      [] text = "{\"frequencies\":[{\"frequency\":45.3,\"earSide\":0},{\"frequency\":100.0,\"earSide\":2}]}"
            -> [ok |-> TRUE, data |-> ParsedList(JArr(
                  <<Elem("object", JDec(45, "3"), JNum(0)),
                    Elem("object", JNum(100), JNum(2))>>))]
      [] text = "{\"frequencies\":[{\"frequency\":100.0,\"earSide\":2},{\"frequency\":45.3,\"earSide\":0}]}"
            -> [ok |-> TRUE, data |-> ParsedList(JArr(
                  <<Elem("object", JNum(100), JNum(2)),
                    Elem("object", JDec(45, "3"), JNum(0))>>))]
      [] text = "{\"frequencies\":[{\"frequency\":87,\"earSide\":1}]}"
            -> [ok |-> TRUE, data |-> ParsedList(JArr(
                  <<Elem("object", JNum(87), JNum(1))>>))]
      [] text = "{\"frequencies\":[{\"frequency\":45.3,\"earSide\":0},{\"frequency\":100.0,\"earSide\":5}]}"
            -> [ok |-> TRUE, data |-> ParsedList(JArr(
                  <<Elem("object", JDec(45, "3"), JNum(0)),
                    Elem("object", JNum(100), JNum(5))>>))]
      [] text = "{\"frequencies\":[{\"frequency\":\"45.3\",\"earSide\":0}]}"
            -> [ok |-> TRUE, data |-> ParsedList(JArr(
                  <<Elem("object", JStr("45.3"), JNum(0))>>))]
      [] text = "{\"frequencies\":[{\"frequency\":45.3}]}"
            -> [ok |-> TRUE, data |-> ParsedList(JArr(
                  <<Elem("object", JDec(45, "3"), JUndef)>>))]
      [] text = "{\"frequencies\":[{\"frequency\":45.3,\"earSide\":0},null]}"
            -> [ok |-> TRUE, data |-> ParsedList(JArr(
                  <<Elem("object", JDec(45, "3"), JNum(0)),
                    Elem("null", JUndef, JUndef)>>))]
      [] text = "{\"frequencies\":[45.3]}"
            -> [ok |-> TRUE, data |-> ParsedList(JArr(
                  <<Elem("number", JUndef, JUndef)>>))]
      [] text = "{\"frequencies\":null}"
            -> [ok |-> TRUE, data |-> ParsedList([t |-> "null", items |-> <<>>])]
      [] text = "{\"frequencies\":\"45.3\"}"
            -> [ok |-> TRUE, data |-> ParsedList([t |-> "string", items |-> <<>>])]
      [] text = "{\"frequencies\":{\"frequency\":45.3,\"earSide\":0}}"
            -> [ok |-> TRUE, data |-> ParsedList([t |-> "object", items |-> <<>>])]
      [] text = "[{\"frequency\":45.3,\"earSide\":0}]"
            -> [ok |-> TRUE, data |-> Parsed("array", JUndef)]
      [] OTHER           -> [ok |-> FALSE, data |-> Parsed("undefined", JUndef)]

\* a body read that hands the empty text to JSON.parse
parseJSONBody_strict(read) ==
    IF read.ev = "error" THEN [ok |-> FALSE, data |-> Parsed("undefined", JUndef)]
    ELSE JSONParse(read.text)

\* a body read that resolves with {} when the text is no JSON
parseJSONBody_lenient(read) ==
    IF read.ev = "error" THEN [ok |-> FALSE, data |-> Parsed("undefined", JUndef)]
    ELSE IF read.text = "" \/ ~JSONParse(read.text).ok
    THEN [ok |-> TRUE, data |-> Parsed("object", JUndef)]
    ELSE JSONParse(read.text)

\* parseJSONBody: the promise resolves (ok) with the parsed body, {} for an
\* empty one, and rejects on a SyntaxError or a stream error
parseJSONBody(read) ==
    IF read.ev = "error" THEN [ok |-> FALSE, data |-> Parsed("undefined", JUndef)]
    ELSE IF read.text = "" THEN [ok |-> TRUE, data |-> Parsed("object", JUndef)]
    ELSE JSONParse(read.text)

\* reading a property of `data` throws a TypeError when data is null
Throws(data) == data.kind = "null"

\* --------------------------------------------------------------- helpers
\* a status that tests the window before the url
getConnectionStatus_windowFirst(url, window) ==
    IF ~window THEN "DISCONNECTED"
    ELSE IF Truthy(url) THEN "CONNECTED"
    ELSE "WAITING_FOR_CONNECTION"

getConnectionStatus(url, window) ==
    IF Truthy(url) THEN "CONNECTED"
    ELSE IF window THEN "WAITING_FOR_CONNECTION"
    ELSE "DISCONNECTED"

\* [0, 1, 2].includes(v)
IncludesEarSide(v) == v.t = "number" /\ v.d = "" /\ v.n \in {0, 1, 2}

\* a validation that accepts any numeric earSide
isValidFrequency_anyEarSide(freq) ==
    /\ freq.kind \in {"object", "null", "array"}
    /\ freq.kind # "null"
    /\ freq.frequency.t = "number"
    /\ freq.earSide.t = "number"

isValidFrequency(freq) ==
    /\ freq.kind \in {"object", "null", "array"}
    /\ freq.kind # "null"
    /\ freq.frequency.t = "number"
    /\ freq.earSide.t = "number"
    /\ IncludesEarSide(freq.earSide)

isValidFrequenciesArray(frequencies) ==
    IF frequencies.t # "array" THEN FALSE
    ELSE \A i \in 1..Len(frequencies.items) : isValidFrequency(frequencies.items[i])

\* a conversion that keeps one decimal for integers
frequencyToString_fixed(v) ==
    IF v.t = "number"
    THEN ToString(v.n) \o "." \o (IF v.d = "" THEN "0" ELSE v.d)
    ELSE v.s

\* String(frequency)
frequencyToString(v) ==
    CASE v.t = "number"    -> IF v.d = "" THEN ToString(v.n)
                              ELSE ToString(v.n) \o "." \o v.d
      [] v.t = "string"    -> v.s
      [] v.t = "boolean"   -> IF v.n = 1 THEN "true" ELSE "false"
      [] v.t = "null"      -> "null"
      [] v.t = "undefined" -> "undefined"
      [] OTHER             -> "[object Object]"

\* a disconnect that releases PTT and loads the waiting page, and keeps the
\* url and the heartbeat
disconnect_keepsSession(why) ==
    LET release == isPTTPressed /\ mainWindow
    IN  [isPTTPressed  |-> IF release THEN FALSE ELSE isPTTPressed,
         serverURL     |-> serverURL,
         lastHeartbeat |-> lastHeartbeat,
         sent          |-> (IF release THEN <<PttRelease>> ELSE <<>>)
                           \o (IF mainWindow THEN <<LoadWaiting>> ELSE <<>>),
         reason        |-> why]

\* disconnect(reason): the session after it and the calls it makes
disconnect(why) ==
    LET release == isPTTPressed /\ mainWindow
    IN  [isPTTPressed  |-> IF release THEN FALSE ELSE isPTTPressed,
         serverURL     |-> JNull,
         lastHeartbeat |-> JNull,
         sent          |-> (IF release THEN <<PttRelease>> ELSE <<>>)
                           \o (IF mainWindow THEN <<LoadWaiting>> ELSE <<>>),
         reason        |-> why]

\* ------------------------------------------------------ handler effects
\* the effect of a handler that changes nothing and answers nothing
Same == [serverURL |-> serverURL, isPTTPressed |-> isPTTPressed,
         lastHeartbeat |-> lastHeartbeat, sent |-> <<>>, resp |-> NoResp,
         reason |-> "", read |-> NoRead, req |-> NoReq]

\* a press that forgets the "already pressed" test
pttPress_noGuard ==
    IF mainWindow
    THEN [Same EXCEPT !.isPTTPressed = TRUE, !.sent = <<PttPress>>,
                      !.resp = sendJSON(200, DSuccess)]
    ELSE [Same EXCEPT !.resp = sendJSON(200, DSuccess)]

\* POST /ptt/press
pttPress ==
    IF mainWindow /\ ~isPTTPressed
    THEN [Same EXCEPT !.isPTTPressed = TRUE, !.sent = <<PttPress>>,
                      !.resp = sendJSON(200, DSuccess)]
    ELSE [Same EXCEPT !.resp = sendJSON(200, DSuccess)]

\* a release that forgets the window test
pttRelease_noWindow ==
    IF isPTTPressed
    THEN [Same EXCEPT !.isPTTPressed = FALSE,
                      !.sent = IF mainWindow THEN <<PttRelease>> ELSE <<>>,
                      !.resp = sendJSON(200, DSuccess)]
    ELSE [Same EXCEPT !.resp = sendJSON(200, DSuccess)]

\* POST /ptt/release
pttRelease ==
    IF mainWindow /\ isPTTPressed
    THEN [Same EXCEPT !.isPTTPressed = FALSE, !.sent = <<PttRelease>>,
                      !.resp = sendJSON(200, DSuccess)]
    ELSE [Same EXCEPT !.resp = sendJSON(200, DSuccess)]

\* a status that reports PTT as pressed only while a window is attached
status_pttNeedsWindow ==
    [Same EXCEPT !.resp = sendJSON(200,
        DStatus(getConnectionStatus(serverURL, mainWindow),
                isPTTPressed /\ mainWindow, serverURL # JNull, serverURL))]

\* GET /status
status ==
    [Same EXCEPT !.resp = sendJSON(200,
        DStatus(getConnectionStatus(serverURL, mainWindow), isPTTPressed,
                serverURL # JNull, serverURL))]

\* a catch clause that logs the error and answers nothing
invalidJSON_silent(read) == [Same EXCEPT !.read = read]

\* the catch clause of the request handler
invalidJSON(read) ==
    [Same EXCEPT !.read = read, !.resp = sendJSON(400, DError("Invalid JSON"))]

\* a /connect that stamps the heartbeat before it awaits its body
connectAwait_stamps == [Same EXCEPT !.lastHeartbeat = JNum(now)]

\* POST /connect up to `await parseJSONBody(req)`: the headers are set, the
\* method and the url are compared, and the handler suspends
connectAwait == Same

\* a /connect that tests `data.url !== undefined` instead of its truth
connect_definedUrl(read) ==
    LET p == parseJSONBody(read)
    IN  IF ~p.ok \/ Throws(p.data) THEN invalidJSON(read)
        ELSE IF p.data.url # JUndef
        THEN [Same EXCEPT !.read = read,
                          !.serverURL = p.data.url,
                          !.lastHeartbeat = JNum(now),
                          !.sent = IF mainWindow
                                   THEN <<Ev("loadURL", p.data.url.s)>> ELSE <<>>,
                          !.resp = sendJSON(200, DConnected(p.data.url))]
        ELSE [Same EXCEPT !.read = read,
                          !.resp = sendJSON(400, DError("Missing url parameter"))]

\* a /connect that releases PTT as disconnect() does before it takes the url
connect_releases(read) ==
    LET p == parseJSONBody(read)
        release == isPTTPressed /\ mainWindow
    IN  IF ~p.ok \/ Throws(p.data) THEN invalidJSON(read)
        ELSE IF Truthy(p.data.url)
        THEN [Same EXCEPT !.read = read,
                          !.isPTTPressed = IF release THEN FALSE ELSE isPTTPressed,
                          !.serverURL = p.data.url,
                          !.lastHeartbeat = JNum(now),
                          !.sent = (IF release THEN <<PttRelease>> ELSE <<>>)
                                   \o (IF mainWindow
                                       THEN <<Ev("loadURL", p.data.url.s)>> ELSE <<>>),
                          !.resp = sendJSON(200, DConnected(p.data.url))]
        ELSE [Same EXCEPT !.read = read,
                          !.resp = sendJSON(400, DError("Missing url parameter"))]

\* a /connect that stamps the heartbeat before it looks at the url
connect_stampsFirst(read) ==
    LET p == parseJSONBody(read)
    IN  IF ~p.ok \/ Throws(p.data) THEN invalidJSON(read)
        ELSE IF Truthy(p.data.url)
        THEN [Same EXCEPT !.read = read,
                          !.serverURL = p.data.url,
                          !.lastHeartbeat = JNum(now),
                          !.sent = IF mainWindow
                                   THEN <<Ev("loadURL", p.data.url.s)>> ELSE <<>>,
                          !.resp = sendJSON(200, DConnected(p.data.url))]
        ELSE [Same EXCEPT !.read = read,
                          !.lastHeartbeat = JNum(now),
                          !.resp = sendJSON(400, DError("Missing url parameter"))]

\* a /connect that leaves lastHeartbeat as it is
connect_noHeartbeat(read) ==
    LET p == parseJSONBody(read)
    IN  IF ~p.ok \/ Throws(p.data) THEN invalidJSON(read)
        ELSE IF Truthy(p.data.url)
        THEN [Same EXCEPT !.read = read,
                          !.serverURL = p.data.url,
                          !.sent = IF mainWindow
                                   THEN <<Ev("loadURL", p.data.url.s)>> ELSE <<>>,
                          !.resp = sendJSON(200, DConnected(p.data.url))]
        ELSE [Same EXCEPT !.read = read,
                          !.resp = sendJSON(400, DError("Missing url parameter"))]

\* POST /connect, from the end of the body read on
connect(read) ==
    LET p == parseJSONBody(read)
    IN  IF ~p.ok \/ Throws(p.data) THEN invalidJSON(read)
        ELSE IF Truthy(p.data.url)
        THEN [Same EXCEPT !.read = read,
                          !.serverURL = p.data.url,
                          !.lastHeartbeat = JNum(now),
                          !.sent = IF mainWindow
                                   THEN <<Ev("loadURL", p.data.url.s)>> ELSE <<>>,
                          !.resp = sendJSON(200, DConnected(p.data.url))]
        ELSE [Same EXCEPT !.read = read,
                          !.resp = sendJSON(400, DError("Missing url parameter"))]

\* a /disconnect that is refused when no window is attached
manualDisconnect_needsWindow ==
    LET d == disconnect("manual")
    IN  IF mainWindow
        THEN [Same EXCEPT !.isPTTPressed = d.isPTTPressed, !.serverURL = d.serverURL,
                          !.lastHeartbeat = d.lastHeartbeat, !.sent = d.sent,
                          !.reason = d.reason, !.resp = sendJSON(200, DSuccess)]
        ELSE [Same EXCEPT !.resp = sendJSON(400, DError("No window"))]

\* POST /disconnect
manualDisconnect ==
    LET d == disconnect("manual")
    IN  [Same EXCEPT !.isPTTPressed = d.isPTTPressed, !.serverURL = d.serverURL,
                     !.lastHeartbeat = d.lastHeartbeat, !.sent = d.sent,
                     !.reason = d.reason, !.resp = sendJSON(200, DSuccess)]

\* a heartbeat that is refused while not connected
heartbeat_rejectsIdle ==
    IF Truthy(serverURL)
    THEN [Same EXCEPT !.lastHeartbeat = JNum(now), !.resp = sendJSON(200, DSuccess)]
    ELSE [Same EXCEPT !.lastHeartbeat = JNum(now),
                      !.resp = sendJSON(400, DError("Not connected"))]

\* a heartbeat that counts only while connected
heartbeat_onlyConnected ==
    IF Truthy(serverURL)
    THEN [Same EXCEPT !.lastHeartbeat = JNum(now), !.resp = sendJSON(200, DSuccess)]
    ELSE [Same EXCEPT !.resp = sendJSON(200, DSuccess)]

\* POST /heartbeat
heartbeat ==
    [Same EXCEPT !.lastHeartbeat = JNum(now), !.resp = sendJSON(200, DSuccess)]

\* a check that times out at the limit itself (>= for >)
heartbeatCheck_atLimit ==
    IF /\ Truthy(lastHeartbeat) /\ Truthy(serverURL)
       /\ now - lastHeartbeat.n >= HEARTBEAT_TIMEOUT
    THEN LET d == disconnect("heartbeat_timeout")
         IN  [Same EXCEPT !.isPTTPressed = d.isPTTPressed,
                          !.serverURL = d.serverURL,
                          !.lastHeartbeat = d.lastHeartbeat, !.sent = d.sent,
                          !.reason = d.reason]
    ELSE Same

\* a check that gives up when no window is attached
heartbeatCheck_needsWindow ==
    IF /\ Truthy(lastHeartbeat) /\ Truthy(serverURL) /\ mainWindow
       /\ now - lastHeartbeat.n > HEARTBEAT_TIMEOUT
    THEN LET d == disconnect("heartbeat_timeout")
         IN  [Same EXCEPT !.isPTTPressed = d.isPTTPressed,
                          !.serverURL = d.serverURL,
                          !.lastHeartbeat = d.lastHeartbeat, !.sent = d.sent,
                          !.reason = d.reason]
    ELSE Same

\* the callback of setInterval in startHeartbeatCheck
heartbeatCheck ==
    IF /\ Truthy(lastHeartbeat) /\ Truthy(serverURL)
       /\ now - lastHeartbeat.n > HEARTBEAT_TIMEOUT
    THEN LET d == disconnect("heartbeat_timeout")
         IN  [Same EXCEPT !.isPTTPressed = d.isPTTPressed,
                          !.serverURL = d.serverURL,
                          !.lastHeartbeat = d.lastHeartbeat, !.sent = d.sent,
                          !.reason = d.reason]
    ELSE Same

\* createWindow: the page the new window loads
createWindow(isDev) ==
    [Same EXCEPT !.sent =
        IF isDev THEN <<Ev("loadURL", "http://localhost:3001")>>
        ELSE IF Truthy(serverURL) THEN <<Ev("loadURL", serverURL.s)>>
        ELSE <<LoadWaiting>>]

\* a legacy /frequency that tests the truth of data.frequency
frequencyChange_truthy(read) ==
    LET p == parseJSONBody(read)
    IN  IF ~p.ok \/ Throws(p.data) THEN invalidJSON(read)
        ELSE IF Truthy(p.data.frequency)
        THEN LET frequency == frequencyToString(p.data.frequency)
             IN  [Same EXCEPT !.read = read,
                      !.sent = IF mainWindow
                               THEN <<Send("frequency:change", PStr(frequency))>>
                               ELSE <<>>,
                      !.resp = sendJSON(200, DFrequency(frequency))]
        ELSE [Same EXCEPT !.read = read,
                  !.resp = sendJSON(400, DError("Missing frequency parameter"))]

\* POST /frequency, from the end of the body read on
frequencyChange(read) ==
    LET p == parseJSONBody(read)
    IN  IF ~p.ok \/ Throws(p.data) THEN invalidJSON(read)
        ELSE IF p.data.frequency # JUndef
        THEN LET frequency == frequencyToString(p.data.frequency)
             IN  [Same EXCEPT !.read = read,
                      !.sent = IF mainWindow
                               THEN <<Send("frequency:change", PStr(frequency))>>
                               ELSE <<>>,
                      !.resp = sendJSON(200, DFrequency(frequency))]
        ELSE [Same EXCEPT !.read = read,
                  !.resp = sendJSON(400, DError("Missing frequency parameter"))]

\* data.frequencies.map(f => ({frequency: frequencyToString(f.frequency),
\* earSide: f.earSide}))
frequenciesWithStrings(items) ==
    [i \in 1..Len(items) |->
        [frequency |-> frequencyToString(items[i].frequency),
         earSide |-> items[i].earSide]]

\* POST /frequencies, from the end of the body read on
frequenciesUpdate(read) ==
    LET p == parseJSONBody(read)
    IN  IF ~p.ok \/ Throws(p.data) THEN invalidJSON(read)
        ELSE IF p.data.frequencies.t # "array"
        THEN [Same EXCEPT !.read = read,
                  !.resp = sendJSON(400, DError("frequencies must be an array"))]
        ELSE IF ~isValidFrequenciesArray(p.data.frequencies)
        THEN [Same EXCEPT !.read = read,
                  !.resp = sendJSON(400, DError(
                      "Invalid frequency format. Expected: [{frequency: number, earSide: 0|1|2}]"))]
        ELSE LET list == frequenciesWithStrings(p.data.frequencies.items)
             IN  [Same EXCEPT !.read = read,
                      !.sent = IF mainWindow
                               THEN <<Send("frequencies:update", PList(list))>>
                               ELSE <<>>,
                      !.resp = sendJSON(200, DCount(Len(list)))]

\* a numeric-frequency route that accepts any defined frequency
frequencyRoute_defined(channel, read) ==
    LET p == parseJSONBody(read)
    IN  IF ~p.ok \/ Throws(p.data) THEN invalidJSON(read)
        ELSE IF p.data.frequency = JUndef
        THEN [Same EXCEPT !.read = read,
                  !.resp = sendJSON(400, DError("frequency must be a number"))]
        ELSE LET frequencyStr == frequencyToString(p.data.frequency)
             IN  [Same EXCEPT !.read = read,
                      !.sent = IF mainWindow
                               THEN <<Send(channel, PStr(frequencyStr))>>
                               ELSE <<>>,
                      !.resp = sendJSON(200, DFrequency(frequencyStr))]

\* a numeric-frequency route that is refused while not connected
frequencyRoute_connected(channel, read) ==
    LET p == parseJSONBody(read)
    IN  IF ~p.ok \/ Throws(p.data) THEN invalidJSON(read)
        ELSE IF ~Truthy(serverURL)
        THEN [Same EXCEPT !.read = read,
                  !.resp = sendJSON(400, DError("Not connected"))]
        ELSE IF p.data.frequency.t # "number"
        THEN [Same EXCEPT !.read = read,
                  !.resp = sendJSON(400, DError("frequency must be a number"))]
        ELSE LET frequencyStr == frequencyToString(p.data.frequency)
             IN  [Same EXCEPT !.read = read,
                      !.sent = IF mainWindow
                               THEN <<Send(channel, PStr(frequencyStr))>>
                               ELSE <<>>,
                      !.resp = sendJSON(200, DFrequency(frequencyStr))]

\* the body of the /active-channel and /frequency/disconnect branches, which
\* differ in the channel they send on
frequencyRoute(channel, read) ==
    LET p == parseJSONBody(read)
    IN  IF ~p.ok \/ Throws(p.data) THEN invalidJSON(read)
        ELSE IF p.data.frequency.t # "number"
        THEN [Same EXCEPT !.read = read,
                  !.resp = sendJSON(400, DError("frequency must be a number"))]
        ELSE LET frequencyStr == frequencyToString(p.data.frequency)
             IN  [Same EXCEPT !.read = read,
                      !.sent = IF mainWindow
                               THEN <<Send(channel, PStr(frequencyStr))>>
                               ELSE <<>>,
                      !.resp = sendJSON(200, DFrequency(frequencyStr))]

\* POST /active-channel, from the end of the body read on
activeChannelChange(read) == frequencyRoute("active-channel:change", read)

\* a /frequency/disconnect that ends the session as /disconnect does
frequencyDisconnect_session(read) ==
    [frequencyRoute("frequency:disconnect", read) EXCEPT
        !.serverURL = JNull, !.lastHeartbeat = JNull]

\* POST /frequency/disconnect, from the end of the body read on
frequencyDisconnect(read) == frequencyRoute("frequency:disconnect", read)

\* an /ear-side that tests the range before the types
earSideChange_rangeFirst(read) ==
    LET p == parseJSONBody(read)
    IN  IF ~p.ok \/ Throws(p.data) THEN invalidJSON(read)
        ELSE IF p.data.earSide.t = "number" /\ ~IncludesEarSide(p.data.earSide)
        THEN [Same EXCEPT !.read = read,
                  !.resp = sendJSON(400, DError(
                      "earSide must be 0 (left), 1 (right), or 2 (both)"))]
        ELSE IF p.data.frequency.t # "number" \/ p.data.earSide.t # "number"
        THEN [Same EXCEPT !.read = read,
                  !.resp = sendJSON(400, DError("frequency and earSide must be numbers"))]
        ELSE LET frequencyStr == frequencyToString(p.data.frequency)
             IN  [Same EXCEPT !.read = read,
                      !.sent = IF mainWindow
                               THEN <<Send("ear-side:change",
                                           PObj(frequencyStr, p.data.earSide))>>
                               ELSE <<>>,
                      !.resp = sendJSON(200, DEarSide(frequencyStr, p.data.earSide))]

\* POST /ear-side, from the end of the body read on
earSideChange(read) ==
    LET p == parseJSONBody(read)
    IN  IF ~p.ok \/ Throws(p.data) THEN invalidJSON(read)
        ELSE IF p.data.frequency.t # "number" \/ p.data.earSide.t # "number"
        THEN [Same EXCEPT !.read = read,
                  !.resp = sendJSON(400, DError("frequency and earSide must be numbers"))]
        ELSE IF ~IncludesEarSide(p.data.earSide)
        THEN [Same EXCEPT !.read = read,
                  !.resp = sendJSON(400, DError(
                      "earSide must be 0 (left), 1 (right), or 2 (both)"))]
        ELSE LET frequencyStr == frequencyToString(p.data.frequency)
             IN  [Same EXCEPT !.read = read,
                      !.sent = IF mainWindow
                               THEN <<Send("ear-side:change",
                                           PObj(frequencyStr, p.data.earSide))>>
                               ELSE <<>>,
                      !.resp = sendJSON(200, DEarSide(frequencyStr, p.data.earSide))]

\* the 404 branch
notFound == [Same EXCEPT !.resp = sendJSON(404, DError("Not found"))]

\* the OPTIONS branch: writeHead(200) and end() with no body
options == [Same EXCEPT !.resp = [NoData EXCEPT !.code = 200]]

\* origin.includes(part), for the origins of the model
Includes(origin, part) ==
    <<origin, part>> \in { <<"http://localhost:3000", "localhost">>,
                           <<"http://localhost.evil.example", "localhost">>,
                           <<"http://127.0.0.1:5173", "127.0.0.1">> }

\* headers that echo every origin sent
setCORSHeaders_echo(origin) ==
    [allowOrigin  |-> IF origin # "" THEN origin ELSE "http://127.0.0.1",
     allowMethods |-> "GET, POST, OPTIONS",
     allowHeaders |-> "Content-Type"]

setCORSHeaders(origin) ==
    [allowOrigin  |-> IF origin # "" /\ (Includes(origin, "localhost")
                                         \/ Includes(origin, "127.0.0.1"))
                      THEN origin ELSE "http://127.0.0.1",
     allowMethods |-> "GET, POST, OPTIONS",
     allowHeaders |-> "Content-Type"]

\* a dispatch on the path alone
route_pathOnly(method, url) ==
    IF method = "OPTIONS" THEN "OPTIONS"
    ELSE IF url \in {"/ptt/press", "/ptt/release", "/status", "/connect",
                     "/disconnect", "/heartbeat", "/frequency", "/frequencies",
                     "/active-channel", "/ear-side", "/frequency/disconnect"}
    THEN url
    ELSE "404"

\* a dispatch with no branch for OPTIONS
route_noPreflight(method, url) ==
    CASE url = "/status" /\ method = "GET" -> url
      [] url \in {"/ptt/press", "/ptt/release", "/connect", "/disconnect",
                  "/heartbeat", "/frequency", "/frequencies", "/active-channel",
                  "/ear-side", "/frequency/disconnect"} /\ method = "POST" -> url
      [] OTHER -> "404"

\* the branch of the request handler that serves (method, url)
route(method, url) ==
    IF method = "OPTIONS" THEN "OPTIONS"
    ELSE CASE url = "/ptt/press" /\ method = "POST" -> "/ptt/press"
           [] url = "/ptt/release" /\ method = "POST" -> "/ptt/release"
           [] url = "/status" /\ method = "GET" -> "/status"
           [] url = "/connect" /\ method = "POST" -> "/connect"
           [] url = "/disconnect" /\ method = "POST" -> "/disconnect"
           [] url = "/heartbeat" /\ method = "POST" -> "/heartbeat"
           [] url = "/frequency" /\ method = "POST" -> "/frequency"
           [] url = "/frequencies" /\ method = "POST" -> "/frequencies"
           [] url = "/active-channel" /\ method = "POST" -> "/active-channel"
           [] url = "/ear-side" /\ method = "POST" -> "/ear-side"
           [] url = "/frequency/disconnect" /\ method = "POST" -> "/frequency/disconnect"
           [] OTHER -> "404"

\* the request handler on a request whose body read, if the branch reads the
\* body, ends as `read`
serve(req, read) ==
    LET branch == route(req.method, req.url)
        eff    == CASE branch = "OPTIONS"        -> options
                    [] branch = "/ptt/press"     -> pttPress
                    [] branch = "/ptt/release"   -> pttRelease
                    [] branch = "/status"        -> status
                    [] branch = "/connect"       -> connect(read)
                    [] branch = "/disconnect"    -> manualDisconnect
                    [] branch = "/heartbeat"     -> heartbeat
                    [] branch = "/frequency"     -> frequencyChange(read)
                    [] branch = "/frequencies"   -> frequenciesUpdate(read)
                    [] branch = "/active-channel" -> activeChannelChange(read)
                    [] branch = "/ear-side"      -> earSideChange(read)
                    [] branch = "/frequency/disconnect" -> frequencyDisconnect(read)
                    [] OTHER                     -> notFound
    IN  [eff EXCEPT !.req = req, !.resp.cors = setCORSHeaders(req.origin)]

\* the request handler on a request whose body read ends with the body sent
handler(req) == serve(req, [ev |-> "end", text |-> req.body])

\* ------------------------------------------------- createRequestHandler
\* callbacks.onDisconnect as the mock of the tests: it leaves the state alone
onDisconnect_mock(state, why) == state

\* callbacks.onDisconnect bound to disconnect() of main.cjs, on the state object
onDisconnect(state, why) ==
    [state EXCEPT
        !.isPTTPressed = IF state.isPTTPressed /\ state.mainWindow
                         THEN FALSE ELSE state.isPTTPressed,
        !.serverURL = JNull,
        !.lastHeartbeat = JNull]

\* the handler returned by createRequestHandler(state, callbacks): the state
\* object after the request, the response and the callbacks called
createRequestHandler(state, req, read) ==
    LET url    == req.url
        method == req.method
        p      == parseJSONBody(read)
        out(st, statusCode, data, calls) ==
            [state |-> st, resp |-> sendJSON(statusCode, data), calls |-> calls]
        caught == out(state, 400, DError("Invalid JSON"), <<>>)
        answer ==
          IF method = "OPTIONS"
          THEN [state |-> state, resp |-> [NoData EXCEPT !.code = 200], calls |-> <<>>]
          ELSE IF url = "/ptt/press" /\ method = "POST"
          THEN IF state.mainWindow /\ ~state.isPTTPressed
               THEN out([state EXCEPT !.isPTTPressed = TRUE], 200, DSuccess,
                        <<"onPTTPress">>)
               ELSE out(state, 200, DSuccess, <<>>)
          ELSE IF url = "/ptt/release" /\ method = "POST"
          THEN IF state.mainWindow /\ state.isPTTPressed
               THEN out([state EXCEPT !.isPTTPressed = FALSE], 200, DSuccess,
                        <<"onPTTRelease">>)
               ELSE out(state, 200, DSuccess, <<>>)
          ELSE IF url = "/status" /\ method = "GET"
          THEN out(state, 200,
                   DStatus(getConnectionStatus(state.serverURL, state.mainWindow),
                           state.isPTTPressed, state.serverURL # JNull,
                           state.serverURL), <<>>)
          ELSE IF url = "/connect" /\ method = "POST"
          THEN IF ~p.ok \/ Throws(p.data) THEN caught
               ELSE IF Truthy(p.data.url)
               THEN out([state EXCEPT !.serverURL = p.data.url,
                                      !.lastHeartbeat = JNum(now)],
                        200, DConnected(p.data.url), <<"onConnect">>)
               ELSE out(state, 400, DError("Missing url parameter"), <<>>)
          ELSE IF url = "/disconnect" /\ method = "POST"
          THEN out(onDisconnect(state, "manual"), 200, DSuccess, <<"onDisconnect">>)
          ELSE IF url = "/heartbeat" /\ method = "POST"
          THEN out([state EXCEPT !.lastHeartbeat = JNum(now)], 200, DSuccess, <<>>)
          ELSE IF url = "/frequency" /\ method = "POST"
          THEN IF ~p.ok \/ Throws(p.data) THEN caught
               ELSE IF p.data.frequency # JUndef
               THEN out(state, 200, DFrequency(frequencyToString(p.data.frequency)),
                        <<"onFrequencyChange">>)
               ELSE out(state, 400, DError("Missing frequency parameter"), <<>>)
          ELSE IF url = "/frequencies" /\ method = "POST"
          THEN IF ~p.ok \/ Throws(p.data) THEN caught
               ELSE IF p.data.frequencies.t # "array"
               THEN out(state, 400, DError("frequencies must be an array"), <<>>)
               ELSE IF ~isValidFrequenciesArray(p.data.frequencies)
               THEN out(state, 400, DError(
                        "Invalid frequency format. Expected: [{frequency: number, earSide: 0|1|2}]"),
                        <<>>)
               ELSE out(state, 200,
                        DCount(Len(frequenciesWithStrings(p.data.frequencies.items))),
                        <<"onFrequenciesUpdate">>)
          ELSE IF url = "/active-channel" /\ method = "POST"
          THEN IF ~p.ok \/ Throws(p.data) THEN caught
               ELSE IF p.data.frequency.t # "number"
               THEN out(state, 400, DError("frequency must be a number"), <<>>)
               ELSE out(state, 200, DFrequency(frequencyToString(p.data.frequency)),
                        <<"onActiveChannelChange">>)
          ELSE IF url = "/ear-side" /\ method = "POST"
          THEN IF ~p.ok \/ Throws(p.data) THEN caught
               ELSE IF p.data.frequency.t # "number" \/ p.data.earSide.t # "number"
               THEN out(state, 400, DError("frequency and earSide must be numbers"), <<>>)
               ELSE IF ~IncludesEarSide(p.data.earSide)
               THEN out(state, 400, DError(
                        "earSide must be 0 (left), 1 (right), or 2 (both)"), <<>>)
               ELSE out(state, 200,
                        DEarSide(frequencyToString(p.data.frequency), p.data.earSide),
                        <<"onEarSideChange">>)
          ELSE IF url = "/frequency/disconnect" /\ method = "POST"
          THEN IF ~p.ok \/ Throws(p.data) THEN caught
               ELSE IF p.data.frequency.t # "number"
               THEN out(state, 400, DError("frequency must be a number"), <<>>)
               ELSE out(state, 200, DFrequency(frequencyToString(p.data.frequency)),
                        <<"onFrequencyDisconnect">>)
          ELSE out(state, 404, DError("Not found"), <<>>)
    IN  [answer EXCEPT !.resp.cors = setCORSHeaders(req.origin)]

\* ---------------------------------------------------------- findFreePort
\* the ports whose occupancy is modelled; the ports above them are not looked at
Ports == FirstPort..(FirstPort + MaxPorts - 1)

NoProbe == [at |-> "idle", startPort |-> 0, port |-> 0, busy |-> {}, result |-> 0]

\* server.listen(port, "127.0.0.1"): "listening" when the bind succeeds,
\* "error" when the port is held
listen(port, busy) == IF port \in busy THEN "error" ELSE "listening"

\* a retry that skips a port
retry_skip(port) == port + 2

\* the argument of the recursive call in the "error" handler
retry(port) == port + 1

\* ------------------------------------------------- loadEnvFile, applyEnv
\* texts are sequences of characters
\* String.prototype.trim, for the blank as the only white space
RECURSIVE trimStart(_)
trimStart(str) ==
    IF str # <<>> /\ Head(str) = " " THEN trimStart(Tail(str)) ELSE str
RECURSIVE trimEnd(_)
trimEnd(str) ==
    IF str # <<>> /\ str[Len(str)] = " "
    THEN trimEnd(SubSeq(str, 1, Len(str) - 1)) ELSE str
trim(str) == trimEnd(trimStart(str))

\* str.indexOf(ch): the position, from 0, of the first ch, or -1
indexOf(str, ch) ==
    IF \E i \in 1..Len(str) : str[i] = ch
    THEN (CHOOSE i \in 1..Len(str) :
              str[i] = ch /\ \A j \in 1..(i - 1) : str[j] # ch) - 1
    ELSE -1

\* str.substring(from, to) and str.substring(from), positions from 0
substring(str, from, to) == SubSeq(str, from + 1, to)
substringFrom(str, from) == SubSeq(str, from + 1, Len(str))

\* env[key] = value on an object kept as the sequence of its entries
assign(env, key, value) ==
    IF \E i \in 1..Len(env) : env[i].key = key
    THEN [i \in 1..Len(env) |->
             IF env[i].key = key THEN [key |-> key, value |-> value] ELSE env[i]]
    ELSE Append(env, [key |-> key, value |-> value])

\* a parse that keeps the first value of a key
loadLine_firstWins(env, line) ==
    LET trimmedLine == trim(line)
        equalIndex  == indexOf(trimmedLine, "=")
        key         == trim(substring(trimmedLine, 0, equalIndex))
        value       == trim(substringFrom(trimmedLine, equalIndex + 1))
    IN  IF trimmedLine = <<>> \/ trimmedLine[1] = "#" THEN env
        ELSE IF equalIndex > 0 /\ key # <<>> /\ value # <<>>
                /\ ~\E i \in 1..Len(env) : env[i].key = key
        THEN assign(env, key, value)
        ELSE env

\* the callback of envContent.split("\n").forEach in loadEnvFile
loadLine(env, line) ==
    LET trimmedLine == trim(line)
        equalIndex  == indexOf(trimmedLine, "=")
        key         == trim(substring(trimmedLine, 0, equalIndex))
        value       == trim(substringFrom(trimmedLine, equalIndex + 1))
    IN  IF trimmedLine = <<>> \/ trimmedLine[1] = "#" THEN env
        ELSE IF equalIndex > 0 /\ key # <<>> /\ value # <<>>
        THEN assign(env, key, value)
        ELSE env

\* a variable of process.env: unset, or set to a text
Unset == [set |-> FALSE, value |-> <<>>]
SetTo(value) == [set |-> TRUE, value |-> value]

\* the callback of Object.entries(env).forEach in applyEnv
applyEntry(processEnv, entry) ==
    IF ~processEnv[entry.key].set \/ processEnv[entry.key].value = <<>>
    THEN [processEnv EXCEPT ![entry.key] = SetTo(entry.value)]
    ELSE processEnv

\* the names of the variables and the lines of the file
EnvKeys == { <<"A">>, <<"B">> }
EnvLines ==
    { <<>>, <<" ", " ">>, <<"#", "A", "=", "1">>, <<" ", "#", " ", "B", "=", "2">>,
      <<"A", "=", "1">>, <<"A", "=", "2">>, <<"B", "=", "1">>,
      <<" ", "A", " ", "=", " ", "2", " ">>, <<"A", "=", "1", "=", "2">>,
      <<"A", "=">>, <<"=", "1">>, <<"A">> }
EnvFiles == UNION { [1..n -> EnvLines] : n \in 0..MaxLines }

NoConfig == [at |-> "idle", exists |-> FALSE, lines |-> <<>>, i |-> 0, env |-> <<>>,
             initial |-> [k \in EnvKeys |-> Unset],
             processEnv |-> [k \in EnvKeys |-> Unset]]

\* --------------------------------------------------------------- actions
\* a step of handler `op` with effect `eff`; the history variables follow
Run(op, eff) ==
    /\ serverURL' = eff.serverURL
    /\ isPTTPressed' = eff.isPTTPressed
    /\ lastHeartbeat' = eff.lastHeartbeat
    /\ sent' = eff.sent
    /\ resp' = eff.resp
    /\ reason' = eff.reason
    /\ lastOp' = op
    /\ lastRead' = eff.read
    /\ lastReq' = eff.req
    /\ staleTimeout' = /\ pending > 0
                       /\ staleTimeout \/ eff.reason = "heartbeat_timeout"
    /\ timeouts' = IF eff.reason = "heartbeat_timeout"
                   THEN Min(timeouts + 1, MaxTimeouts) ELSE timeouts
    /\ probe' = probe
    /\ config' = config
    /\ pressedSince' = IF Has(eff.sent, PttRelease) THEN FALSE
                       ELSE pressedSince \/ op = "/ptt/press"
    /\ pressEvents' = IF Has(eff.sent, PttRelease) THEN 0
                      ELSE IF Has(eff.sent, PttPress)
                      THEN Min(pressEvents + 1, MaxPress)
                      ELSE pressEvents
    /\ pressSeen' = IF Has(eff.sent, PttRelease) THEN FALSE
                    ELSE pressSeen \/ (op = "/ptt/press" /\ mainWindow)
    /\ connectedURL' = IF eff.reason # "" THEN JNull
                       ELSE IF op = "/connect" /\ eff.resp.code = 200
                       THEN eff.resp.url
                       ELSE connectedURL

\* a step of the main process alone
Step(op, eff) == Run(op, eff) /\ extracted' = extracted

\* the event loop serves requests and timers between listen() and the end of
\* the process; the window's "closed", "window-all-closed" and "will-quit"
\* are emitted back to back, with no request or timer served between them
ServerUp == phase = "running"

SessionInit ==
    /\ serverURL = JNull
    /\ isPTTPressed = FALSE
    /\ lastHeartbeat = JNull
    /\ mainWindow = FALSE
    /\ heartbeatCheckInterval = FALSE
    /\ now = 1
    /\ nextCheck = 0
    /\ platform \in {"darwin", "win32"}
    /\ phase = "init"
    /\ pending = 0
    /\ lastOp = ""
    /\ reason = ""
    /\ resp = NoResp
    /\ sent = <<>>
    /\ lastRead = NoRead
    /\ pressedSince = FALSE
    /\ pressEvents = 0
    /\ pressSeen = FALSE
    /\ connectedURL = JNull
    /\ lastReq = NoReq
    /\ staleTimeout = FALSE
    /\ timeouts = 0
    /\ extracted = [serverURL |-> JNull, isPTTPressed |-> FALSE,
                    lastHeartbeat |-> JNull, resp |-> NoResp, calls |-> <<>>]

\* the session specifications start with the port found
Init == SessionInit /\ probe = NoProbe /\ config = NoConfig

\* app.whenReady(): startLocalServer(), createWindow(), startHeartbeatCheck()
\* run before the server accepts its first request
WhenReady ==
    /\ phase = "init"
    /\ \E isDev \in BOOLEAN : Step("whenReady", createWindow(isDev))
    /\ mainWindow' = TRUE
    /\ heartbeatCheckInterval' = TRUE
    /\ nextCheck' = now + CHECK_INTERVAL
    /\ phase' = "running"
    /\ UNCHANGED <<now, platform, pending>>

PTTPress ==
    /\ ServerUp
    /\ Step("/ptt/press", pttPress)
    /\ UNCHANGED <<life, clock, pending>>

PTTRelease ==
    /\ ServerUp
    /\ Step("/ptt/release", pttRelease)
    /\ UNCHANGED <<life, clock, pending>>

Status ==
    /\ ServerUp
    /\ Step("/status", status)
    /\ UNCHANGED <<life, clock, pending>>

\* POST /connect arrives: the handler suspends in `await parseJSONBody(req)`
ConnectReceive ==
    /\ ServerUp
    /\ pending < MaxInflight
    /\ pending' = pending + 1
    /\ Step("/connect:await", connectAwait)
    /\ UNCHANGED <<life, clock>>

\* the body read of a suspended POST /connect ends: the handler resumes
Connect ==
    /\ ServerUp
    /\ pending > 0
    /\ pending' = pending - 1
    /\ \E read \in BodyReads(ConnectBodies) : Step("/connect", connect(read))
    /\ UNCHANGED <<life, clock>>

Disconnect ==
    /\ ServerUp
    /\ Step("/disconnect", manualDisconnect)
    /\ UNCHANGED <<life, clock, pending>>

Heartbeat ==
    /\ ServerUp
    /\ Step("/heartbeat", heartbeat)
    /\ UNCHANGED <<life, clock, pending>>

\* the interval fires every CHECK_INTERVAL until clearInterval
HeartbeatCheck ==
    /\ heartbeatCheckInterval
    /\ ServerUp
    /\ now = nextCheck
    /\ Step("heartbeatCheck", heartbeatCheck)
    /\ nextCheck' = nextCheck + CHECK_INTERVAL
    /\ UNCHANGED <<life, now, pending>>

\* time passes, up to the next firing of the interval
AdvanceTime ==
    /\ ServerUp
    /\ now < MaxTime
    /\ heartbeatCheckInterval => now < nextCheck
    /\ now' = IF heartbeatCheckInterval
              THEN Min(Min(now + TimeStep, nextCheck), MaxTime)
              ELSE Min(now + TimeStep, MaxTime)
    /\ Step("advanceTime", Same)
    /\ UNCHANGED <<life, nextCheck, pending>>

\* a "closed" handler that also resets the session
closed_resets ==
    [Same EXCEPT !.serverURL = JNull, !.isPTTPressed = FALSE,
                 !.lastHeartbeat = JNull]

\* the "closed" handler of the window: mainWindow = null and nothing else
closed == Same

\* mainWindow.on("closed"): the only window is gone
WindowClosed ==
    /\ phase = "running"
    /\ mainWindow
    /\ mainWindow' = FALSE
    /\ phase' = "allClosed"
    /\ Step("closed", closed)
    /\ UNCHANGED <<heartbeatCheckInterval, platform, clock, pending>>

\* app.on("window-all-closed"): app.quit() except on darwin
WindowAllClosed ==
    /\ phase = "allClosed"
    /\ phase' = IF platform # "darwin" THEN "quitting" ELSE "running"
    /\ Step("window-all-closed", Same)
    /\ UNCHANGED <<mainWindow, heartbeatCheckInterval, platform, clock, pending>>

\* app.on("will-quit"): httpServer.close(), clearInterval; the process ends
WillQuit ==
    /\ phase = "quitting"
    /\ phase' = "quit"
    /\ heartbeatCheckInterval' = FALSE
    /\ Step("will-quit", Same)
    /\ UNCHANGED <<mainWindow, platform, clock, pending>>

\* app.on("activate"): a new window when none is left (darwin)
Activate ==
    /\ phase = "running"
    /\ platform = "darwin"
    /\ ~mainWindow
    /\ mainWindow' = TRUE
    /\ \E isDev \in BOOLEAN : Step("activate", createWindow(isDev))
    /\ UNCHANGED <<heartbeatCheckInterval, platform, phase, clock, pending>>

Next ==
    \/ WhenReady
    \/ PTTPress
    \/ PTTRelease
    \/ Status
    \/ ConnectReceive
    \/ Connect
    \/ Disconnect
    \/ Heartbeat
    \/ HeartbeatCheck
    \/ AdvanceTime
    \/ WindowClosed
    \/ WindowAllClosed
    \/ WillQuit
    \/ Activate

Spec == Init /\ [][Next]_vars

\* the events that follow the closing of the window are delivered, and the
\* timer fires and time passes while the process runs: closing a window holds
\* them up only for the moment of that delivery, hence strong fairness
LiveSpec ==
    /\ Spec
    /\ SF_vars(HeartbeatCheck)
    /\ SF_vars(AdvanceTime)
    /\ WF_vars(WindowAllClosed)
    /\ WF_vars(WillQuit)

\* the (method, url) pairs of the requests below: routes' paths with another
\* method, paths of no route, and preflights
OtherPairs ==
    { <<"GET", "/connect">>, <<"GET", "/disconnect">>, <<"GET", "/ptt/press">>,
      <<"POST", "/status">>, <<"PUT", "/heartbeat">>, <<"GET", "/frequencies">>,
      <<"GET", "/unknown">>, <<"POST", "/unknown">>, <<"GET", "/status/">>,
      <<"POST", "/connect?url=http://y">>,
      <<"OPTIONS", "/disconnect">>, <<"OPTIONS", "/ptt/press">>,
      <<"OPTIONS", "/connect">>, <<"OPTIONS", "/status">>,
      <<"OPTIONS", "/unknown">> }
Origins == {"", "http://localhost:3000", "http://evil.example"}
OtherRequests ==
    { Req(pair[1], pair[2], origin, "{\"url\":\"http://y\"}") :
        pair \in OtherPairs, origin \in Origins }

Frequency ==
    /\ ServerUp
    /\ \E read \in BodyReads(FrequencyBodies) : Step("/frequency", frequencyChange(read))
    /\ UNCHANGED <<life, clock, pending>>

Frequencies ==
    /\ ServerUp
    /\ \E read \in BodyReads(FrequenciesBodies) :
          Step("/frequencies", frequenciesUpdate(read))
    /\ UNCHANGED <<life, clock, pending>>

ActiveChannel ==
    /\ ServerUp
    /\ \E read \in BodyReads(FrequencyBodies) :
          Step("/active-channel", activeChannelChange(read))
    /\ UNCHANGED <<life, clock, pending>>

EarSide ==
    /\ ServerUp
    /\ \E read \in BodyReads(EarSideBodies) : Step("/ear-side", earSideChange(read))
    /\ UNCHANGED <<life, clock, pending>>

FrequencyDisconnect ==
    /\ ServerUp
    /\ \E read \in BodyReads(FrequencyBodies) :
          Step("/frequency/disconnect", frequencyDisconnect(read))
    /\ UNCHANGED <<life, clock, pending>>

\* a preflight, or a request that names none of the eleven routes
OtherRequest ==
    /\ ServerUp
    /\ \E req \in OtherRequests : Step(route(req.method, req.url), handler(req))
    /\ UNCHANGED <<life, clock, pending>>

\* the whole request handler with the lifecycle of the window.  The timer is
\* left to Spec: the frequency routes, the preflight and the 404 branch
\* neither read nor write lastHeartbeat or the clock.
RouterNext ==
    \/ WhenReady
    \/ PTTPress
    \/ PTTRelease
    \/ Status
    \/ ConnectReceive
    \/ Connect
    \/ Disconnect
    \/ Heartbeat
    \/ WindowClosed
    \/ WindowAllClosed
    \/ WillQuit
    \/ Activate
    \/ Frequency
    \/ Frequencies
    \/ ActiveChannel
    \/ EarSide
    \/ FrequencyDisconnect
    \/ OtherRequest

RouterSpec == Init /\ [][RouterNext]_vars

\* the values of the Origin header: absent, the text "null", origins of the
\* loopback host, and other origins, one of them with "localhost" in its name
HeaderOrigins ==
    { "", "null", "http://localhost:3000", "http://127.0.0.1:5173",
      "http://evil.example", "http://localhost.evil.example" }

\* bodies sent to a route: one it accepts, one it refuses, one that is no JSON
RouteBodies(url) ==
    CASE url = "/connect"     -> { "{\"url\":\"http://x\"}", "{}", "{\"url\":" }
      [] url = "/frequency"   -> { "{\"frequency\":45.3}", "{}", "{\"frequency\":" }
      [] url = "/frequencies" -> { "{\"frequencies\":[{\"frequency\":87,\"earSide\":1}]}",
                                   "{}", "{\"frequencies\":[" }
      [] url = "/active-channel" -> { "{\"frequency\":45.3}", "{}", "{\"frequency\":" }
      [] url = "/ear-side"    -> { "{\"frequency\":45.3,\"earSide\":0}",
                                   "{\"frequency\":45.3,\"earSide\":5}",
                                   "{\"frequency\":" }
      [] url = "/frequency/disconnect" -> { "{\"frequency\":100.0}", "{}", "{\"frequency\":" }
      [] OTHER                -> { "" }

\* the (method, url) pairs of the eleven routes
RoutePairs ==
    { <<"POST", "/ptt/press">>, <<"POST", "/ptt/release">>, <<"GET", "/status">>,
      <<"POST", "/connect">>, <<"POST", "/disconnect">>, <<"POST", "/heartbeat">>,
      <<"POST", "/frequency">>, <<"POST", "/frequencies">>,
      <<"POST", "/active-channel">>, <<"POST", "/ear-side">>,
      <<"POST", "/frequency/disconnect">> }

\* requests of any kind, each with an Origin header or none
Requests ==
    { Req(pair[1], pair[2], origin, body) :
        pair \in RoutePairs \cup OtherPairs, origin \in HeaderOrigins,
        body \in RouteBodies("/connect") \cup RouteBodies("/frequency")
                 \cup RouteBodies("/frequencies") \cup RouteBodies("/ear-side")
                 \cup RouteBodies("/frequency/disconnect") \cup RouteBodies("/status") }

\* a request, with its headers, served by the handler from its first line to
\* its answer
Request ==
    /\ ServerUp
    /\ \E req \in Requests :
          /\ req.body \in RouteBodies(req.url)
          /\ Step(route(req.method, req.url), handler(req))
    /\ UNCHANGED <<life, clock, pending>>

\* the request handler as a whole, with the lifecycle of the window
HandlerNext ==
    \/ WhenReady
    \/ Request
    \/ WindowClosed
    \/ WindowAllClosed
    \/ WillQuit
    \/ Activate

HandlerSpec == Init /\ [][HandlerNext]_vars

\* the requests of the whole program: each route with a body it accepts, one
\* it refuses and one that is no JSON, a preflight and two requests of no route
ServedPairs ==
    RoutePairs \cup { <<"OPTIONS", "/disconnect">>, <<"GET", "/unknown">>,
                      <<"GET", "/disconnect">> }
ServedRequests ==
    UNION { { Req(pair[1], pair[2], "", body) : body \in RouteBodies(pair[2]) } :
            pair \in ServedPairs }

\* a request served by the handler from its first line to its answer
Serve ==
    /\ ServerUp
    /\ \E req \in ServedRequests : Step(route(req.method, req.url), handler(req))
    /\ UNCHANGED <<life, clock, pending>>

\* the whole program: every route, the timer and the lifecycle of the window
WholeNext ==
    \/ WhenReady
    \/ Serve
    \/ HeartbeatCheck
    \/ AdvanceTime
    \/ WindowClosed
    \/ WindowAllClosed
    \/ WillQuit
    \/ Activate

WholeSpec == Init /\ [][WholeNext]_vars

\* time passes, up to the next firing of the interval, for long enough to let
\* two connections time out one after the other
Elapse ==
    /\ ServerUp
    /\ now < MaxMonitorTime
    /\ heartbeatCheckInterval => now < nextCheck
    /\ now' = IF heartbeatCheckInterval
              THEN Min(Min(now + TimeStep, nextCheck), MaxMonitorTime)
              ELSE Min(now + TimeStep, MaxMonitorTime)
    /\ Step("advanceTime", Same)
    /\ UNCHANGED <<life, nextCheck, pending>>

\* the timer with the routes that write serverURL and lastHeartbeat
MonitorNext ==
    \/ WhenReady
    \/ ConnectReceive
    \/ Connect
    \/ Disconnect
    \/ Heartbeat
    \/ HeartbeatCheck
    \/ Elapse
    \/ WindowClosed
    \/ WindowAllClosed
    \/ WillQuit
    \/ Activate

MonitorSpec == Init /\ [][MonitorNext]_vars

\* the same request is served by the handler of main.cjs and by the handler of
\* createRequestHandler, whose state object holds the same window; the body
\* read of both ends the same way
BothServe ==
    /\ ServerUp
    /\ \E req \in ServedRequests, ev \in {"end", "error"} :
          LET read == [ev |-> ev, text |-> IF ev = "end" THEN req.body ELSE ""]
              state == [mainWindow |-> mainWindow,
                        isPTTPressed |-> extracted.isPTTPressed,
                        serverURL |-> extracted.serverURL,
                        lastHeartbeat |-> extracted.lastHeartbeat]
              r == createRequestHandler(state, req, read)
          IN  /\ Run(route(req.method, req.url), serve(req, read))
              /\ extracted' = [serverURL |-> r.state.serverURL,
                               isPTTPressed |-> r.state.isPTTPressed,
                               lastHeartbeat |-> r.state.lastHeartbeat,
                               resp |-> r.resp, calls |-> r.calls]
    /\ UNCHANGED <<life, clock, pending>>

\* the two handlers side by side, with the window and the clock they share
BothNext ==
    \/ WhenReady
    \/ BothServe
    \/ AdvanceTime
    \/ WindowClosed
    \/ WindowAllClosed
    \/ WillQuit
    \/ Activate

BothSpec == Init /\ [][BothNext]_vars

\* everything but the run of findFreePort
others == <<serverURL, isPTTPressed, lastHeartbeat, mainWindow,
            heartbeatCheckInterval, now, nextCheck, platform, phase, pending,
            lastOp, reason, resp, sent, lastRead, pressedSince, pressEvents,
            pressSeen, connectedURL, lastReq, staleTimeout, timeouts,
            extracted>>

\* findFreePort(startPort) is called while some set of ports is held by others
PortInit ==
    /\ SessionInit
    /\ \E startPort \in Ports, busy \in SUBSET Ports :
          probe = [at |-> "listen", startPort |-> startPort, port |-> startPort,
                   busy |-> busy, result |-> 0]
    /\ config = NoConfig

\* the probing server emits "listening": port = server.address().port
ServerListening ==
    /\ probe.at = "listen"
    /\ probe.port \in Ports
    /\ listen(probe.port, probe.busy) = "listening"
    /\ probe' = [probe EXCEPT !.at = "close"]
    /\ UNCHANGED <<others, config>>

\* the probing server emits "error": findFreePort(startPort + 1)
ServerError ==
    /\ probe.at = "listen"
    /\ probe.port \in Ports
    /\ listen(probe.port, probe.busy) = "error"
    /\ probe' = [probe EXCEPT !.port = retry(probe.port)]
    /\ UNCHANGED <<others, config>>

\* the callback of server.close: resolve(port)
ServerClosed ==
    /\ probe.at = "close"
    /\ probe' = [probe EXCEPT !.at = "resolved", !.result = probe.port]
    /\ UNCHANGED <<others, config>>

PortNext ==
    \/ ServerListening
    \/ ServerError
    \/ ServerClosed

\* the event loop delivers the events of the probing server
PortSpec == PortInit /\ [][PortNext]_vars /\ WF_vars(PortNext)

\* loadEnvFile(envPath) is called on a file, or on the path of no file, with
\* each variable unset, empty or set
ConfigInit ==
    /\ SessionInit
    /\ probe = NoProbe
    /\ \E exists \in BOOLEAN, lines \in EnvFiles,
          initial \in [EnvKeys -> {Unset, SetTo(<<>>), SetTo(<<"0">>)}] :
          /\ ~exists => lines = <<>>
          /\ config = [at |-> "load", exists |-> exists, lines |-> lines, i |-> 1,
                       env |-> <<>>, initial |-> initial, processEnv |-> initial]

\* loadEnvFile on the path of no file returns {}
LoadNoFile ==
    /\ config.at = "load"
    /\ ~config.exists
    /\ config' = [config EXCEPT !.at = "apply", !.i = 1]
    /\ UNCHANGED <<others, probe>>

\* loadEnvFile takes the next line, and returns after the last
LoadLine ==
    /\ config.at = "load"
    /\ config.exists
    /\ config' = IF config.i <= Len(config.lines)
                 THEN [config EXCEPT !.env = loadLine(config.env, config.lines[config.i]),
                                     !.i = config.i + 1]
                 ELSE [config EXCEPT !.at = "apply", !.i = 1]
    /\ UNCHANGED <<others, probe>>

\* applyEnv takes the next entry, and returns after the last
ApplyEntry ==
    /\ config.at = "apply"
    /\ config' = IF config.i <= Len(config.env)
                 THEN [config EXCEPT
                          !.processEnv = applyEntry(config.processEnv, config.env[config.i]),
                          !.i = config.i + 1]
                 ELSE [config EXCEPT !.at = "done"]
    /\ UNCHANGED <<others, probe>>

ConfigNext ==
    \/ LoadNoFile
    \/ LoadLine
    \/ ApplyEntry

ConfigSpec == ConfigInit /\ [][ConfigNext]_vars

TypeOK ==
    /\ isPTTPressed \in BOOLEAN
    /\ mainWindow \in BOOLEAN
    /\ serverURL.t \in {"null", "string"}
    /\ lastHeartbeat.t \in {"null", "number"}
    /\ now \in 1..MaxTime
    /\ pending \in 0..MaxInflight

\* ================================================================ claims

\* C1 (as stated): when a /ptt/press is handled after another one with no
\* release event between them, exactly one press event has been sent since
\* that release event; a /ptt/release handled while isPTTPressed is false
\* sends no release event.
C1_Original ==
    [][ /\ (lastOp' = "/ptt/press" /\ pressedSince => pressEvents' = 1)
        /\ (lastOp' = "/ptt/release" /\ ~isPTTPressed =>
                ~Has(sent', PttRelease)) ]_vars

\* C1 (amended): the /ptt/press requests handled since the last release event
\* have sent at most one press event: exactly one if a window was attached
\* when one of them was handled, none otherwise; a /ptt/release handled while
\* isPTTPressed is false sends no release event.
C1_PressIdempotent ==
    [][ /\ pressEvents' <= 1
        /\ (lastOp' = "/ptt/press" /\ pressedSince =>
                pressEvents' = IF pressSeen' THEN 1 ELSE 0)
        /\ (lastOp' = "/ptt/release" /\ ~isPTTPressed =>
                ~Has(sent', PttRelease)) ]_vars

C1_Witness ==
    lastOp = "/ptt/press" /\ pressedSince /\ pressEvents = 1 /\ sent = <<>>

\* C2: isPTTPressed changes, either way, only in a step taken with a window
\* attached, and a PTT event is sent only by a step that changes the flag in
\* the event's direction.
C2_PttTransitions ==
    [][ /\ (isPTTPressed' # isPTTPressed => mainWindow)
        /\ (Has(sent', PttPress) => ~isPTTPressed /\ isPTTPressed')
        /\ (Has(sent', PttRelease) => isPTTPressed /\ ~isPTTPressed') ]_vars

C2_Witness ==
    lastOp = "/disconnect" /\ Has(sent, PttRelease) /\ ~isPTTPressed

\* C3: after POST /disconnect serverURL and lastHeartbeat are null,
\* isPTTPressed is false, a release event was sent if and only if isPTTPressed
\* was true before, and the response is 200 {success:true}.
C3_DisconnectResets ==
    [][lastOp' = "/disconnect" =>
          /\ serverURL' = JNull
          /\ lastHeartbeat' = JNull
          /\ ~isPTTPressed'
          /\ (Has(sent', PttRelease) <=> isPTTPressed)
          /\ resp' = sendJSON(200, DSuccess)]_vars

C5_ConnectedIffURL ==
    /\ serverURL = JNull \/ Truthy(serverURL)
    /\ (serverURL # JNull) <=>
           (getConnectionStatus(serverURL, mainWindow) = "CONNECTED")
    /\ lastOp = "/status" => (resp.connected <=> (resp.status = "CONNECTED"))

C5_Witness ==
    lastOp = "/status" /\ resp.connected /\ resp.status = "CONNECTED" /\ ~mainWindow

\* the session is connected and its last heartbeat is older than the timeout
Expired ==
    /\ Truthy(serverURL)
    /\ Truthy(lastHeartbeat)
    /\ now - lastHeartbeat.n > HEARTBEAT_TIMEOUT

\* the last step was the monitor's disconnect, and the status is the one of a
\* session without url
TimedOut ==
    /\ lastOp = "heartbeatCheck"
    /\ reason = "heartbeat_timeout"
    /\ serverURL = JNull
    /\ status.resp.status =
          IF mainWindow THEN "WAITING_FOR_CONNECTION" ELSE "DISCONNECTED"

\* the last step refreshed the heartbeat, or disconnected by request
Refreshed ==
    \/ lastOp = "/heartbeat"
    \/ lastOp = "/connect" /\ resp.code = 200
    \/ lastOp = "/disconnect"

\* C6: while the interval runs (and its next firing lies within MaxTime), an
\* expired session leads to the monitor's heartbeat_timeout disconnect, with
\* status WAITING_FOR_CONNECTION or DISCONNECTED after it, unless a heartbeat,
\* a connect or a manual disconnect comes first or the process quits; and the
\* session is never expired for more than one CHECK_INTERVAL.
C6_TimeoutLiveness ==
    /\ [](Expired /\ heartbeatCheckInterval =>
              now - lastHeartbeat.n <= HEARTBEAT_TIMEOUT + CHECK_INTERVAL)
    /\ (Expired /\ heartbeatCheckInterval /\ nextCheck <= MaxTime)
           ~> (TimedOut \/ Refreshed \/ phase = "quit")

C6_Witness == TimedOut /\ ~mainWindow

\* C7: the monitor disconnects only from a state with serverURL set and a
\* last heartbeat strictly older than HEARTBEAT_TIMEOUT; any other firing of
\* the interval changes nothing and sends nothing.
C7_MonitorGuard ==
    [][ /\ (reason' = "heartbeat_timeout" => lastOp' = "heartbeatCheck" /\ Expired)
        /\ (lastOp' = "heartbeatCheck" /\ ~Expired =>
                session' = session /\ sent' = <<>> /\ reason' = "") ]_vars

C7_Witness ==
    /\ lastOp = "heartbeatCheck"
    /\ Truthy(serverURL)
    /\ now - lastHeartbeat.n = HEARTBEAT_TIMEOUT

LastBody == parseJSONBody(lastRead)

\* C9 (as stated): for a well-formed JSON body, POST /connect answers 400
\* "Missing url parameter" exactly when body.url is absent, then leaving
\* serverURL and lastHeartbeat unchanged; when body.url is present it answers
\* 200 and serverURL is that value.
C9_Original ==
    [][lastOp' = "/connect" /\ LastBody'.ok =>
          LET absent == LastBody'.data.url = JUndef
          IN  /\ (resp'.code = 400 /\ resp'.error = "Missing url parameter") <=> absent
              /\ absent => serverURL' = serverURL /\ lastHeartbeat' = lastHeartbeat
              /\ ~absent => resp'.code = 200 /\ serverURL' = LastBody'.data.url]_vars

\* C9 (amended): POST /connect answers 400 "Missing url parameter" exactly
\* when the body parses to a non-null JSON value whose url is absent or falsy
\* (null, false, 0, ""), then leaving serverURL and lastHeartbeat unchanged;
\* when body.url is a non-empty string it answers 200 {success, url} and
\* serverURL is that string.
C9_ConnectValidation ==
    [][lastOp' = "/connect" =>
          LET missing == /\ LastBody'.ok
                         /\ LastBody'.data.kind # "null"
                         /\ ~Truthy(LastBody'.data.url)
              given   == /\ LastBody'.ok
                         /\ LastBody'.data.url.t = "string"
                         /\ LastBody'.data.url.s # ""
          IN  /\ (resp'.code = 400 /\ resp'.error = "Missing url parameter") <=> missing
              /\ missing => serverURL' = serverURL /\ lastHeartbeat' = lastHeartbeat
              /\ given => /\ resp' = sendJSON(200, DConnected(LastBody'.data.url))
                          /\ serverURL' = LastBody'.data.url]_vars

C9_Witness ==
    /\ lastOp = "/connect"
    /\ lastRead.text = "{\"url\":\"\"}"
    /\ resp = sendJSON(400, DError("Missing url parameter"))
    /\ serverURL = JStr("http://x")

C11_HeartbeatFrame ==
    [][lastOp' = "/heartbeat" =>
          /\ serverURL' = serverURL
          /\ isPTTPressed' = isPTTPressed
          /\ mainWindow' = mainWindow
          /\ getConnectionStatus(serverURL', mainWindow') = getConnectionStatus(serverURL, mainWindow)
          /\ sent' = <<>>
          /\ reason' = ""
          /\ resp' = sendJSON(200, DSuccess)]_vars

C11_Witness ==
    /\ lastOp = "/heartbeat"
    /\ lastHeartbeat # JNull
    /\ getConnectionStatus(serverURL, mainWindow) = "DISCONNECTED"
    /\ isPTTPressed

\* C12: GET /status answers 200 with running true, status the resolved
\* status, pttPressed the PTT flag and serverURL the url of the session; it
\* changes no session variable and sends nothing to the window.
C12_StatusReadOnly ==
    [][lastOp' = "/status" =>
          /\ resp'.code = 200
          /\ resp'.running
          /\ resp'.error = ""
          /\ resp'.status = getConnectionStatus(serverURL, mainWindow)
          /\ resp'.pttPressed = isPTTPressed
          /\ resp'.serverURL = serverURL
          /\ session' = session
          /\ mainWindow' = mainWindow
          /\ sent' = <<>>]_vars

C12_Witness ==
    /\ lastOp = "/status"
    /\ resp.pttPressed
    /\ ~mainWindow
    /\ resp.status = "DISCONNECTED"

\* the values a connection url takes: null, or a non-empty string
ConnectionURLs == {JNull, JStr("http://x"), JStr("http://y")}

\* C13: getConnectionStatus returns CONNECTED for every set url, window or
\* not, WAITING_FOR_CONNECTION for no url with a window and DISCONNECTED for
\* neither; the status of every /status answer is that value for the session.
C13_ResolveStatusTotal ==
    /\ \A u \in ConnectionURLs, w \in BOOLEAN :
          getConnectionStatus(u, w) =
              IF u # JNull THEN "CONNECTED"
              ELSE IF w THEN "WAITING_FOR_CONNECTION"
              ELSE "DISCONNECTED"
    /\ serverURL \in ConnectionURLs
    /\ lastOp = "/status" =>
          resp.status \in {"CONNECTED", "WAITING_FOR_CONNECTION", "DISCONNECTED"}

C13_Witness ==
    lastOp = "/status" /\ resp.status = "WAITING_FOR_CONNECTION" /\ mainWindow

\* the value of data.frequencies in the body of the last step
LastList == LastBody.data.frequencies

C15_FrequenciesRejected ==
    LET items == LastList.items
        bad(e) == ~ /\ e.kind = "object"
                    /\ e.frequency.t = "number"
                    /\ e.earSide \in {JNum(0), JNum(1), JNum(2)}
    IN  (lastOp = "/frequencies" /\ LastBody.ok /\ LastBody.data.kind # "null") =>
          /\ LastList.t # "array" =>
                /\ resp = sendJSON(400, DError("frequencies must be an array"))
                /\ sent = <<>>
          /\ (LastList.t = "array" /\ \E i \in 1..Len(items) : bad(items[i])) =>
                /\ resp = sendJSON(400, DError(
                      "Invalid frequency format. Expected: [{frequency: number, earSide: 0|1|2}]"))
                /\ sent = <<>>

C15_Witness ==
    /\ lastOp = "/frequencies"
    /\ mainWindow
    /\ lastRead.text = "{\"frequencies\":[{\"frequency\":45.3,\"earSide\":0},{\"frequency\":100.0,\"earSide\":5}]}"
    /\ resp.code = 400
    /\ sent = <<>>

\* C16 as stated: POST /ear-side answers the 400 type error when frequency
\* or earSide is no number, else the 400 range error when earSide is none of
\* 0, 1, 2, else 200 {success, frequency, earSide} and sends ear-side:change
\* with {frequency as a string, earSide}; nothing is sent on the errors.
C16_Original ==
    LET f == LastBody.data.frequency
        e == LastBody.data.earSide
    IN  (lastOp = "/ear-side" /\ LastBody.ok /\ LastBody.data.kind # "null") =>
          IF f.t # "number" \/ e.t # "number"
          THEN /\ resp = sendJSON(400, DError("frequency and earSide must be numbers"))
               /\ sent = <<>>
          ELSE IF e \notin {JNum(0), JNum(1), JNum(2)}
          THEN /\ resp = sendJSON(400, DError(
                      "earSide must be 0 (left), 1 (right), or 2 (both)"))
               /\ sent = <<>>
          ELSE /\ resp = sendJSON(200, DEarSide(frequencyToString(f), e))
               /\ sent = <<Send("ear-side:change", PObj(frequencyToString(f), e))>>

\* C16, amended: the answers are as stated, the type test comes before the
\* range test, and on success the ear-side:change is sent when a window is
\* attached and nothing is sent when none is.
C16_EarSide ==
    LET f == LastBody.data.frequency
        e == LastBody.data.earSide
    IN  (lastOp = "/ear-side" /\ LastBody.ok /\ LastBody.data.kind # "null") =>
          IF f.t # "number" \/ e.t # "number"
          THEN /\ resp = sendJSON(400, DError("frequency and earSide must be numbers"))
               /\ sent = <<>>
          ELSE IF e \notin {JNum(0), JNum(1), JNum(2)}
          THEN /\ resp = sendJSON(400, DError(
                      "earSide must be 0 (left), 1 (right), or 2 (both)"))
               /\ sent = <<>>
          ELSE /\ resp = sendJSON(200, DEarSide(frequencyToString(f), e))
               /\ sent = IF mainWindow
                         THEN <<Send("ear-side:change", PObj(frequencyToString(f), e))>>
                         ELSE <<>>
               /\ lastRead.text = "{\"frequency\":100.0,\"earSide\":2}"
                     => resp.frequency = JStr("100")

C16_Witness ==
    /\ lastOp = "/ear-side"
    /\ mainWindow
    /\ lastRead.text = "{\"frequency\":\"45.3\",\"earSide\":5}"
    /\ resp.error = "frequency and earSide must be numbers"
    /\ sent = <<>>

\* C17 as stated: POST /active-channel and POST /frequency/disconnect with a
\* numeric frequency answer 200 {success, frequency as a string} and send
\* active-channel:change, resp. frequency:disconnect, with that string; with
\* an absent or non-numeric frequency they answer 400 "frequency must be a
\* number" and send nothing.
C17_Original ==
    LET f == LastBody.data.frequency
        channel == IF lastOp = "/active-channel" THEN "active-channel:change"
                   ELSE "frequency:disconnect"
    IN  (/\ lastOp \in {"/active-channel", "/frequency/disconnect"}
         /\ LastBody.ok /\ LastBody.data.kind # "null") =>
          IF f.t = "number"
          THEN /\ resp = sendJSON(200, DFrequency(frequencyToString(f)))
               /\ sent = <<Send(channel, PStr(frequencyToString(f)))>>
          ELSE /\ resp = sendJSON(400, DError("frequency must be a number"))
               /\ sent = <<>>

\* C17, amended: the answers are as stated, and on success the event is sent
\* when a window is attached and nothing is sent when none is.
C17_NumericFrequency ==
    LET f == LastBody.data.frequency
        channel == IF lastOp = "/active-channel" THEN "active-channel:change"
                   ELSE "frequency:disconnect"
    IN  (/\ lastOp \in {"/active-channel", "/frequency/disconnect"}
         /\ LastBody.ok /\ LastBody.data.kind # "null") =>
          IF f.t = "number"
          THEN /\ resp = sendJSON(200, DFrequency(frequencyToString(f)))
               /\ sent = IF mainWindow
                         THEN <<Send(channel, PStr(frequencyToString(f)))>>
                         ELSE <<>>
               /\ lastRead.text = "{\"frequency\":100.0}"
                     => resp.frequency = JStr("100")
          ELSE /\ resp = sendJSON(400, DError("frequency must be a number"))
               /\ sent = <<>>

C17_Witness ==
    /\ lastOp = "/frequency/disconnect"
    /\ mainWindow
    /\ lastRead.text = "{\"frequency\":100.0}"
    /\ sent = <<Send("frequency:disconnect", PStr("100"))>>

\* C18 as stated: POST /frequency with a defined frequency of any type
\* answers 200 {success, frequency: its string} and sends frequency:change
\* with that string; with no frequency it answers 400 "Missing frequency
\* parameter" and sends nothing.
C18_Original ==
    LET f == LastBody.data.frequency
    IN  (lastOp = "/frequency" /\ LastBody.ok /\ LastBody.data.kind # "null") =>
          IF f # JUndef
          THEN /\ resp = sendJSON(200, DFrequency(frequencyToString(f)))
               /\ sent = <<Send("frequency:change", PStr(frequencyToString(f)))>>
          ELSE /\ resp = sendJSON(400, DError("Missing frequency parameter"))
               /\ sent = <<>>

\* C18, amended: the answers are as stated (null gives "null", false "false",
\* 0 "0", an object "[object Object]"), and on success the event is sent when
\* a window is attached and nothing is sent when none is.
C18_LegacyFrequency ==
    LET f == LastBody.data.frequency
    IN  (lastOp = "/frequency" /\ LastBody.ok /\ LastBody.data.kind # "null") =>
          IF f # JUndef
          THEN /\ resp = sendJSON(200, DFrequency(frequencyToString(f)))
               /\ sent = IF mainWindow
                         THEN <<Send("frequency:change", PStr(frequencyToString(f)))>>
                         ELSE <<>>
               /\ lastRead.text = "{\"frequency\":null}" => resp.frequency = JStr("null")
               /\ lastRead.text = "{\"frequency\":false}" => resp.frequency = JStr("false")
               /\ lastRead.text = "{\"frequency\":0}" => resp.frequency = JStr("0")
               /\ lastRead.text = "{\"frequency\":{}}"
                     => resp.frequency = JStr("[object Object]")
               /\ lastRead.text = "{\"frequency\":\"87.5\"}" => resp.frequency = JStr("87.5")
               /\ lastRead.text = "{\"frequency\":45.3}" => resp.frequency = JStr("45.3")
          ELSE /\ resp = sendJSON(400, DError("Missing frequency parameter"))
               /\ sent = <<>>

C18_Witness ==
    /\ lastOp = "/frequency"
    /\ mainWindow
    /\ lastRead.text = "{\"frequency\":null}"
    /\ resp.frequency = JStr("null")
    /\ Len(sent) = 1

\* C19: a request that is no OPTIONS and whose method and url are not those
\* of one of the eleven routes is answered 404 {error:"Not found"}; its body
\* is not read, the session is kept and nothing is sent to the window.
C19_NotFound ==
    [][(/\ lastReq' # NoReq
        /\ lastReq'.method # "OPTIONS"
        /\ <<lastReq'.method, lastReq'.url>> \notin
              { <<"POST", "/ptt/press">>, <<"POST", "/ptt/release">>,
                <<"GET", "/status">>, <<"POST", "/connect">>,
                <<"POST", "/disconnect">>, <<"POST", "/heartbeat">>,
                <<"POST", "/frequency">>, <<"POST", "/frequencies">>,
                <<"POST", "/active-channel">>, <<"POST", "/ear-side">>,
                <<"POST", "/frequency/disconnect">> })
       => /\ resp'.code = 404
          /\ resp'.json
          /\ resp'.error = "Not found"
          /\ ~resp'.success
          /\ lastRead' = NoRead
          /\ session' = session
          /\ mainWindow' = mainWindow
          /\ pending' = pending
          /\ reason' = ""
          /\ sent' = <<>>]_vars

C19_Witness ==
    /\ lastReq.method = "GET"
    /\ lastReq.url = "/connect"
    /\ resp.code = 404
    /\ serverURL = JNull
    /\ mainWindow

\* C20: an OPTIONS request on any url is answered 200 with no body and with
\* the three CORS headers; no branch of a route runs: the body is not read,
\* the session is kept and nothing is sent to the window.
C20_Preflight ==
    [][(lastReq' # NoReq /\ lastReq'.method = "OPTIONS")
       => /\ resp'.code = 200
          /\ ~resp'.json
          /\ resp'.error = "" /\ ~resp'.success
          /\ resp'.cors.allowOrigin \in {lastReq'.origin, "http://127.0.0.1"}
          /\ resp'.cors.allowOrigin # ""
          /\ resp'.cors.allowMethods = "GET, POST, OPTIONS"
          /\ resp'.cors.allowHeaders = "Content-Type"
          /\ lastRead' = NoRead
          /\ session' = session
          /\ mainWindow' = mainWindow
          /\ pending' = pending
          /\ reason' = ""
          /\ sent' = <<>>]_vars

C20_Witness ==
    /\ lastReq.method = "OPTIONS"
    /\ lastReq.url = "/disconnect"
    /\ resp.code = 200
    /\ serverURL # JNull
    /\ isPTTPressed
    /\ mainWindow

\* C21: every response carries Access-Control-Allow-Origin equal to the
\* Origin of the request when that is present and contains "localhost" or
\* "127.0.0.1", and "http://127.0.0.1" otherwise; Allow-Methods is "GET, POST,
\* OPTIONS" and Allow-Headers is "Content-Type".
C21_CORSHeaders ==
    /\ resp.code # 0 => lastReq # NoReq
    /\ lastReq # NoReq =>
          /\ resp.code \in {200, 400, 404}
          /\ resp.cors.allowOrigin =
                IF lastReq.origin \in { "http://localhost:3000",
                                        "http://127.0.0.1:5173",
                                        "http://localhost.evil.example" }
                THEN lastReq.origin
                ELSE "http://127.0.0.1"
          /\ resp.cors.allowMethods = "GET, POST, OPTIONS"
          /\ resp.cors.allowHeaders = "Content-Type"

C21_Witness ==
    /\ lastReq.url = "/ear-side"
    /\ lastReq.origin = "http://evil.example"
    /\ resp.code = 400
    /\ resp.cors.allowOrigin = "http://127.0.0.1"

\* the steps of the six branches that read a body
BodyRoutes ==
    { "/connect", "/frequency", "/frequencies", "/active-channel", "/ear-side",
      "/frequency/disconnect" }

\* C22: on each of the six body routes a body that is no JSON, or a body
\* stream that ends with an error, is answered 400 {error:"Invalid JSON"}; the
\* session is kept and nothing is sent to the window.
C22_InvalidJSON ==
    [][(/\ lastOp' \in BodyRoutes
        /\ \/ lastRead'.ev = "error"
           \/ /\ lastRead'.ev = "end"
              /\ lastRead'.text \in { "{\"url\":", "{\"frequency\":",
                                      "{\"frequencies\":[" })
       => /\ resp' = sendJSON(400, DError("Invalid JSON"))
          /\ session' = session
          /\ mainWindow' = mainWindow
          /\ reason' = ""
          /\ sent' = <<>>]_vars

C22_Witness ==
    /\ lastOp = "/frequencies"
    /\ lastRead.ev = "error"
    /\ resp = sendJSON(400, DError("Invalid JSON"))
    /\ serverURL # JNull
    /\ mainWindow

\* C23: no answer has a 5xx code, and a body route whose body is well-formed
\* JSON of any type (null, arrays and scalars included) is never answered with
\* the generic "Invalid JSON".
C23_GenericOnlyOnFailure ==
    /\ resp.code < 500
    /\ (/\ lastOp \in BodyRoutes
        /\ lastRead.ev = "end"
        /\ lastRead.text \notin { "{\"url\":", "{\"frequency\":",
                                  "{\"frequencies\":[" })
       => resp.error # "Invalid JSON"

C25_LastWriterWins ==
    /\ (lastOp = "/connect" /\ staleTimeout /\ resp.code = 200) =>
          /\ serverURL = LastBody.data.url
          /\ serverURL = resp.url
          /\ serverURL # JNull
          /\ lastHeartbeat = JNum(now)
          /\ getConnectionStatus(serverURL, mainWindow) = "CONNECTED"
    /\ serverURL # JNull => lastHeartbeat # JNull

C25_Witness ==
    /\ lastOp = "/connect"
    /\ staleTimeout
    /\ resp.code = 200
    /\ serverURL = JStr("http://y")
    /\ lastHeartbeat = JNum(now)

FrequencyValues == { JUndef, JNull, JStr("45.3"), JNum(0), JDec(45, "3"), JNum(100) }
EarSideValues ==
    { JUndef, JNull, JStr("0"), JBool(TRUE), JNum(-1), JNum(0), JNum(1), JNum(2),
      JNum(3), JDec(1, "5") }
Descriptors ==
    { Elem("object", f, e) : f \in FrequencyValues, e \in EarSideValues }
    \cup { Elem(k, JUndef, JUndef) : k \in {"null", "undefined", "string", "number", "array"} }

\* the arguments of isValidFrequenciesArray: values that are no arrays, and
\* the arrays of up to MaxList elements
ListElems ==
    { Elem("object", JDec(45, "3"), JNum(0)), Elem("object", JNum(100), JNum(2)),
      Elem("object", JNum(100), JNum(5)), Elem("object", JStr("45.3"), JNum(0)),
      Elem("null", JUndef, JUndef), Elem("number", JUndef, JUndef) }
Lists ==
    { [t |-> k, items |-> <<>>] : k \in {"undefined", "null", "string", "object", "number"} }
    \cup UNION { { JArr(items) : items \in [1..n -> ListElems] } : n \in 0..MaxList }

\* C27: isValidFrequency(x) is true exactly for a non-null object with a
\* numeric frequency and an earSide that is the number 0, 1 or 2, and
\* isValidFrequenciesArray(xs) exactly for an array, empty or not, whose
\* elements are all valid; every other argument gives false.
C27_Validators ==
    LET valid(x) == /\ x.kind \in {"object", "array"}
                    /\ x.frequency.t = "number"
                    /\ x.earSide \in {JNum(0), JNum(1), JNum(2)}
    IN  /\ \A x \in Descriptors : isValidFrequency(x) <=> valid(x)
        /\ \A xs \in Lists :
              isValidFrequenciesArray(xs) <=>
                  /\ xs.t = "array"
                  /\ \A i \in 1..Len(xs.items) : valid(xs.items[i])
        /\ (lastOp = "/frequencies" /\ LastBody.ok /\ LastBody.data.kind # "null"
            /\ LastList.t = "array") =>
              (resp.code = 200 <=> \A i \in 1..Len(LastList.items) :
                                      valid(LastList.items[i]))

C27_Witness ==
    /\ lastOp = "/frequencies"
    /\ lastRead.text = "{\"frequencies\":[{\"frequency\":45.3,\"earSide\":0},null]}"
    /\ resp.code = 400
    /\ isValidFrequency(LastList.items[1])
    /\ ~isValidFrequency(LastList.items[2])

\* C28: findFreePort tries startPort, startPort + 1, ... one after the
\* other; what it resolves with is the lowest port from startPort up that is
\* not held, greater than startPort when startPort is held; and it resolves
\* whenever one of the ports from startPort up is not held.
C28_FindFreePort ==
    /\ [][probe'.port \in {probe.port, probe.port + 1}]_vars
    /\ [](probe.at = "resolved" =>
            /\ probe.result >= probe.startPort
            /\ probe.result \notin probe.busy
            /\ \A q \in probe.startPort..(probe.result - 1) : q \in probe.busy
            /\ probe.startPort \in probe.busy => probe.result > probe.startPort)
    /\ ((\E q \in Ports : q >= probe.startPort /\ q \notin probe.busy)
           ~> probe.at = "resolved")

C28_Witness ==
    /\ probe.at = "resolved"
    /\ probe.startPort = FirstPort
    /\ probe.busy = {FirstPort, FirstPort + 1}
    /\ probe.result = FirstPort + 2

\* C29: parseJSONBody resolves with {} for an empty body, so a body route
\* that receives no body answers with its own validation error and not with
\* "Invalid JSON".
C29_EmptyBody ==
    /\ parseJSONBody([ev |-> "end", text |-> ""]).ok
    /\ parseJSONBody([ev |-> "end", text |-> ""]).data = Parsed("object", JUndef)
    /\ (lastOp \in BodyRoutes /\ lastRead = [ev |-> "end", text |-> ""]) =>
          /\ resp.code = 400
          /\ resp.error # "Invalid JSON"
          /\ resp.error =
                CASE lastOp = "/connect"     -> "Missing url parameter"
                  [] lastOp = "/frequency"   -> "Missing frequency parameter"
                  [] lastOp = "/frequencies" -> "frequencies must be an array"
                  [] lastOp = "/ear-side"    -> "frequency and earSide must be numbers"
                  [] OTHER                   -> "frequency must be a number"
          /\ sent = <<>>

C29_Witness ==
    /\ lastOp = "/ear-side"
    /\ lastRead = [ev |-> "end", text |-> ""]
    /\ resp.error = "frequency and earSide must be numbers"

\* the lines of the file that define `key`: neither blank nor a comment,
\* with the key before the first "=" and a value after it
Defining(key) ==
    { n \in 1..Len(config.lines) :
        LET t == trim(config.lines[n])
            e == indexOf(t, "=")
        IN  /\ t # <<>>
            /\ t[1] # "#"
            /\ e > 0
            /\ trim(substring(t, 0, e)) = key
            /\ trim(substringFrom(t, e + 1)) # <<>> }
ValueAt(n) ==
    LET t == trim(config.lines[n])
    IN  trim(substringFrom(t, indexOf(t, "=") + 1))

C31_AtomicHandlers ==
    [][ /\ lastOp' = "/connect:await" =>
            /\ UNCHANGED session
            /\ sent' = <<>>
            /\ resp' = NoResp
            /\ pending' = pending + 1
        /\ (lastOp' = "/connect" /\ resp'.code = 200) =>
            /\ pending' = pending - 1
            /\ serverURL' = resp'.url
            /\ lastHeartbeat' = JNum(now)
            /\ isPTTPressed' = isPTTPressed
            /\ (sent' # <<>>) = mainWindow
        /\ reason' = "heartbeat_timeout" =>
            /\ Truthy(lastHeartbeat)
            /\ Truthy(serverURL)
            /\ now - lastHeartbeat.n > HEARTBEAT_TIMEOUT
            /\ serverURL' = JNull /\ lastHeartbeat' = JNull
        /\ Has(sent', PttPress) => mainWindow /\ ~isPTTPressed /\ isPTTPressed'
        /\ Has(sent', PttRelease) => mainWindow /\ isPTTPressed /\ ~isPTTPressed'
        /\ isPTTPressed' # isPTTPressed =>
            lastOp' \in {"/ptt/press", "/ptt/release", "/disconnect", "heartbeatCheck"}
        /\ pending' # pending => lastOp' \in {"/connect:await", "/connect"}
      ]_vars

\* a press is handled, test and write together, while a /connect is suspended
C31_Witness ==
    /\ pending > 0
    /\ lastOp = "/ptt/press"
    /\ Has(sent, PttPress)
    /\ isPTTPressed

\* C32: serverURL goes from set to null, and lastHeartbeat from set to null,
\* only in a step of /disconnect, of the timer's timeout or of the window's
\* "closed"; no other step clears either of them.
C32_ClearOnlyOnDisconnect ==
    [][ \/ serverURL # JNull /\ serverURL' = JNull
        \/ lastHeartbeat # JNull /\ lastHeartbeat' = JNull
        => \/ lastOp' = "/disconnect" /\ reason' = "manual"
           \/ lastOp' = "heartbeatCheck" /\ reason' = "heartbeat_timeout"
           \/ lastOp' = "closed"
      ]_vars

\* the timer has cleared the session of a connection made with no window
C32_Witness ==
    /\ lastOp = "heartbeatCheck"
    /\ reason = "heartbeat_timeout"
    /\ serverURL = JNull
    /\ lastHeartbeat = JNull
    /\ ~mainWindow

\* the ptt events among the calls of one step
PttEvents(calls) == { i \in DOMAIN calls : calls[i] \in {PttPress, PttRelease} }

\* C33: the ptt events sent alternate press, release, press, ... from a press
\* on, isPTTPressed is true exactly when one more press than releases has been
\* sent, and every change of isPTTPressed comes with exactly one event.
C33_PttAlternation ==
    [][ /\ isPTTPressed = (pressEvents = 1)
        /\ isPTTPressed' = (pressEvents' = 1)
        /\ Has(sent', PttPress) => pressEvents = 0
        /\ Has(sent', PttRelease) => pressEvents = 1
        /\ Cardinality(PttEvents(sent')) <= 1
        /\ (isPTTPressed' # isPTTPressed) = (Cardinality(PttEvents(sent')) = 1)
      ]_vars

\* the timer's disconnect has sent the release that follows a press
C33_Witness ==
    /\ lastOp = "heartbeatCheck"
    /\ Has(sent, PttRelease)
    /\ ~isPTTPressed
    /\ pressEvents = 0
    /\ pending > 0

\* C34: a POST /connect answered 200 leaves isPTTPressed as it was and sends
\* no ptt event; it calls no disconnect(), whatever the session was, puts its
\* url in serverURL and the time in lastHeartbeat, and its only call on the
\* window is the loadURL of its url.
C34_ConnectKeepsPTT ==
    [][ (lastOp' = "/connect" /\ resp'.code = 200) =>
            /\ isPTTPressed' = isPTTPressed
            /\ PttEvents(sent') = {}
            /\ reason' = ""
            /\ serverURL' = resp'.url
            /\ serverURL' # JNull
            /\ lastHeartbeat' = JNum(now)
            /\ sent' = IF mainWindow THEN <<Ev("loadURL", serverURL'.s)>> ELSE <<>>
            /\ pressEvents' = pressEvents
      ]_vars

\* a /connect has succeeded while PTT is held
C34_Witness ==
    /\ lastOp = "/connect"
    /\ resp.code = 200
    /\ isPTTPressed
    /\ pressEvents = 1
    /\ serverURL = JStr("http://y")
    /\ sent = <<Ev("loadURL", "http://y")>>

Branches ==
    { "OPTIONS", "404", "/ptt/press", "/ptt/release", "/status", "/disconnect",
      "/heartbeat" } \cup BodyRoutes

FrequencyRoutes == BodyRoutes \ {"/connect"}
Channel(op) ==
    CASE op = "/frequency"            -> "frequency:change"
      [] op = "/frequencies"          -> "frequencies:update"
      [] op = "/active-channel"       -> "active-channel:change"
      [] op = "/ear-side"             -> "ear-side:change"
      [] op = "/frequency/disconnect" -> "frequency:disconnect"
Valid(op, data) ==
    CASE op = "/frequency"   -> data.frequency # JUndef
      [] op = "/frequencies" -> /\ data.frequencies.t = "array"
                                /\ isValidFrequenciesArray(data.frequencies)
      [] op = "/ear-side"    -> /\ data.frequency.t = "number"
                                /\ data.earSide.t = "number"
                                /\ IncludesEarSide(data.earSide)
      [] OTHER               -> data.frequency.t = "number"

\* C38: the frequency routes ask for no connection and leave the session
\* alone: in every state a valid request is answered 200 and, when a window
\* is attached, sent on as one event on the route's channel, an invalid one is
\* answered 400 with nothing sent, and serverURL, isPTTPressed and
\* lastHeartbeat stay as they were.
C38_FrequencyRoutesFrame ==
    [][ lastOp' \in FrequencyRoutes =>
          LET p == parseJSONBody(lastRead')
              valid == p.ok /\ ~Throws(p.data) /\ Valid(lastOp', p.data)
          IN  /\ UNCHANGED session
              /\ UNCHANGED <<mainWindow, connectedURL, pressEvents>>
              /\ reason' = ""
              /\ resp'.code = IF valid THEN 200 ELSE 400
              /\ Len(sent') = IF valid /\ mainWindow THEN 1 ELSE 0
              /\ sent' # <<>> =>
                    sent'[1].call = "send" /\ sent'[1].arg = Channel(lastOp')
      ]_vars

\* a valid request was sent on to the window of a session that is not connected
C38_Witness ==
    /\ lastOp = "/ear-side"
    /\ resp.code = 200
    /\ serverURL = JNull
    /\ lastHeartbeat = JNull
    /\ mainWindow
    /\ Len(sent) = 1
    /\ sent[1].arg = "ear-side:change"

\* C39: the handler of main.cjs and the handler of createRequestHandler, with
\* onDisconnect bound to disconnect(), run from the same state on the same
\* requests, give the same status code and body for every request and leave
\* the same serverURL, isPTTPressed and lastHeartbeat after each.
C39_HandlersEquivalent ==
    /\ extracted.serverURL = serverURL
    /\ extracted.isPTTPressed = isPTTPressed
    /\ extracted.lastHeartbeat = lastHeartbeat
    /\ lastOp \in Branches => extracted.resp = resp

\* both handlers have answered a /disconnect that ended a session with PTT held
C39_Witness ==
    /\ lastOp = "/disconnect"
    /\ extracted.calls = <<"onDisconnect">>
    /\ extracted.resp = resp
    /\ resp.code = 200
    /\ Has(sent, PttRelease)
    /\ ~extracted.isPTTPressed
    /\ extracted.serverURL = JNull

====
